---- MODULE Spec2Model ----
(***************************************************************************)
(* A model of the fixed-column report parser of NDAS_sample_program.py     *)
(* (class piping_system).  Text lines are sequences of one-character       *)
(* strings; indices, slices and searches follow Python's 0-based rules.    *)
(***************************************************************************)
EXTENDS Integers, Sequences, FiniteSets, TLC

(***************************************************************************)
(* Python string primitives                                                *)
(***************************************************************************)
Whitespace == {" ", "\n"}

MinOf(S) == CHOOSE x \in S : \A y \in S : x <= y
MaxOf(S) == CHOOSE x \in S : \A y \in S : x >= y

\* Python's normalisation of a slice bound i for a string of length n.
Norm(i, n) ==
    IF i < 0 THEN (IF i + n < 0 THEN 0 ELSE i + n)
    ELSE (IF i > n THEN n ELSE i)

\* s[a:b]
Slice(s, a, b) ==
    LET lo == Norm(a, Len(s))
        hi == Norm(b, Len(s))
    IN  IF lo >= hi THEN <<>> ELSE SubSeq(s, lo + 1, hi)

\* s[a:]
SliceFrom(s, a) == Slice(s, a, Len(s))

\* p occurs in s at 0-based offset i
MatchAt(s, p, i) ==
    /\ i + Len(p) <= Len(s)
    /\ \A j \in 1..Len(p) : s[i + j] = p[j]

\* p in s
Contains(s, p) == \E i \in 0..Len(s) : MatchAt(s, p, i)

\* s.find(p)
Find(s, p) ==
    IF Contains(s, p)
    THEN MinOf({i \in 0..Len(s) : MatchAt(s, p, i)})
    ELSE -1

\* s.strip()
Strip(s) ==
    LET idx == {i \in 1..Len(s) : s[i] \notin Whitespace}
    IN  IF idx = {} THEN <<>> ELSE SubSeq(s, MinOf(idx), MaxOf(idx))

\* s.replace(c, "") for a one-character c
Remove(s, c) == SelectSeq(s, LAMBDA x : x # c)

\* dict assignment d[k] = v
Put(d, k, v) == [x \in (DOMAIN d) \cup {k} |-> IF x = k THEN v ELSE d[x]]

EmptyDic == [x \in {} |-> <<>>]

(***************************************************************************)
(* Keywords and catalogs of parse_raw_data                                 *)
(***************************************************************************)
stress_analysis_keyword ==
    <<"A","L","L"," "," "," "," "," ","S","T","R","E","S","S"," ","A","N","A","L","Y","S","I","S">>

pipe_stress_summary_keyword ==
    <<" "," "," "," ","C","O","N","D","I","T","I","O","N"," "," "," "," "," "," ","L","E","V","E","L"," "," "," "," "," ","E","N","D"," "," "," "," ","E","L","E","M","E","N","T"," "," ","S","T","R","E","S","S","("," "," "," ","P","S","I",")"," ","("," "," "," ","P","S","I",")"," "," ","A","L","L","O","W","A","B","L","E">>

pipe_stress_summary_end_keyword ==
    <<" ","A","P","P","R","O","V","E","D"," ","B","Y"," ">>

input_card_start_keyword ==
    <<"I","N","P","U","T"," ","C","A","R","D"," ","I","M","A","G","E","S">>

input_card_end_keyword ==
    <<" "," "," "," "," "," "," "," "," ","."," "," ","+">>

end_geometry_keyword_list ==
    {<<"T","E","A">>, <<"A","C","E">>, <<"E","N","D">>}

parameter_start_key == <<"*","*","*","/">>

parameter_end_key == <<"=">>

comment_key == <<"*","*","*">>

coversheet_parameter_list ==
    {
     <<"A","N","A","L","Y","S","I","S"," ","N","U","M","B","E","R">>,
     <<"A","N","A","L","Y","S","I","S"," ","T","I","T","L","E">>,
     <<"S","T","A","T","I","O","N">>,
     <<"U","N","I","T"," ","N","U","M","B","E","R">>,
     <<"D","I","S","C","I","P","L","I","N","E">>,
     <<"S","A","F","E","T","Y"," ","C","L","A","S","S">>,
     <<"S","Y","S","T","E","M"," ","C","O","D","E">>,
     <<"S","T","R","U","C","T","U","R","E">>,
     <<"A","N","A","L","Y","S","I","S"," ","R","E","V","I","S","I","O","N">>,
     <<"P","A","C","K","A","G","E"," ","N","U","M","B","E","R">>,
     <<"P","A","C","K","A","G","E"," ","R","E","V","I","S","I","O","N">>,
     <<"A","F","F","E","C","T","E","D"," ","D","O","C","U","M","E","N","T"," ","N","U","M","B","E","R">>,
     <<"A","F","F","E","C","T","E","D"," ","D","O","C","U","M","E","N","T"," ","R","E","V","I","S","I","O","N">>,
     <<"D","O","E","S"," ","A","N","A","L","Y","S","I","S"," ","C","O","N","T","A","I","N"," ","S","A","F","E","G","U","A","R","D","S"," ","I","N","F","O","R","M","A","T","I","O","N","(","Y","E","R"," ","O","R"," ","N","O",")","?">>,
     <<"D","O","E","S"," ","A","N","A","L","Y","S","I","S"," ","C","O","N","T","A","I","N"," ","U","N","V","E","R","I","F","I","E","D"," ","A","S","S","U","M","P","T","I","O","N","S","(","Y","E","R"," ","O","R"," ","N","O",")","?">>,
     <<"U","N","V","E","R","I","F","I","E","D"," ","A","S","S","U","M","P","T","I","O","N"," ","T","R","A","C","K","I","N","G"," ","O","R","D","E","R">>,
     <<"S","U","P","E","R","S","E","D","E","D"," ","D","O","C","U","M","E","N","T">>,
     <<"P","R","E","P","A","R","E","R"," ","N","A","M","E">>,
     <<"P","R","E","P","A","R","E","R"," ","S","I","G","N","A","T","U","R","E">>,
     <<"D","A","T","E"," ","P","R","E","P","A","R","E","D">>,
     <<"R","E","V","I","E","W","E","R"," ","N","A","M","E">>,
     <<"R","E","V","I","E","W","E","R"," ","S","I","G","N","A","T","U","R","E">>,
     <<"D","A","T","E"," ","R","E","V","I","E","W","E","D">>,
     <<"M","E","T","H","O","D"," ","O","F"," ","R","E","V","I","E","W">>,
     <<"T","Y","P","E"," ","O","F"," ","R","E","V","I","E","W">>,
     <<"E","X","T","E","R","N","A","L"," ","A","P","P","R","O","V","E","R"," ","N","A","M","E">>,
     <<"E","X","T","E","R","N","A","L"," ","A","P","P","R","O","V","E","R"," ","S","I","G","N","A","T","U","R","E">>,
     <<"E","X","T","E","R","N","A","L"," ","A","P","P","R","O","V","A","L"," ","D","A","T","E">>,
     <<"C","O","M","P","A","N","Y"," ","R","E","V","I","E","W","E","R"," ","N","A","M","E">>,
     <<"C","O","M","P","A","N","Y"," ","R","E","V","I","E","W","E","R"," ","S","I","G","N","A","T","U","R","E">>,
     <<"C","O","M","P","A","N","Y"," ","R","E","V","I","E","W"," ","D","A","T","E">>,
     <<"I","N","D","E","P","E","N","D","E","N","T"," ","T","H","I","R","D"," ","P","A","R","T","Y"," ","R","E","V","I","E","W"," ","R","E","Q","U","I","R","E","D","(","Y","E","R"," ","O","R"," ","N","O",")">>,
     <<"C","O","M","P","A","N","Y"," ","A","P","P","R","O","V","E","R"," ","N","A","M","E">>,
     <<"C","O","M","P","A","N","Y"," ","A","P","P","R","O","V","A","L"," ","S","I","G","N","A","T","U","R","E">>,
     <<"C","O","M","P","A","N","Y"," ","A","P","P","R","O","V","A","L"," ","D","A","T","E">>
    }

coversheet_set_list ==
    {<<"I","N","P","U","T"," ","D","O","C">>,
     <<"F","R","O","M","/","T","O">>,
     <<"C","O","M","P","O","N","E","N","T">>}

long_text_parameter_list ==
    {<<"D","E","S","C","R","I","P","T","I","O","N"," ","O","F"," ","C","H","A","N","G","E">>,
     <<"D","E","S","C","R","I","P","T","I","O","N"," ","O","F"," ","R","E","V","I","S","I","O","N">>}

nozzle_analysis_keyword_list == << <<"O","D","=">>, <<"T","H","I","=">> >>

THOR_parameter_list ==
    << <<"T","H","O","R"," ","N","O","D","E">>,
       <<"M","E","1","0","1"," ","N","O","D","E"," ","N","U","M","B","E","R">> >>

\* column used as the end of a keyword value when no comma follows it
FallbackEndColumn == 92

(***************************************************************************)
(* State                                                                   *)
(***************************************************************************)
VARIABLES
    attr,                                   \* per attribute: "absent", "None" or "set"
    rd_pc,                                  \* parse_raw_data: "idle", "reading", "done"
    raw_data_list,
    stress_analysis_line_number,
    pipe_stress_summary_start_line_number,
    pipe_stress_summary_end_line_number,
    coversheet_parameter_dic,
    raw_segment_parameter_list,
    parsing_raw_geometry,
    first_single_node_in_this_line,         \* "None", "True" or "False"
    segment_all_endpoints_list,
    THOR_node_dic,
    THOR_input_error,
    max_blank_line_cnt,                     \* constructor argument
    lc_pc,                                  \* parse_load_cases: "idle", "called", "done"
    load_case_list,
    cn_pc,                                  \* get_node_connectivities: "idle", "called", "done", "raised"
    node_connectivity_array,
    co_pc,                                  \* parse_node_coordinates: "idle", "called", "done", "raised"
    all_coordinate_id_list,
    loadcase_geometry_dic,
    st_pc,                                  \* parse_stresses: "idle", "done", "raised"
    sustained_stresses,
    sm_pc,                                  \* parse_pipe_stress_summary: "idle", "done", "raised"
    stress_summary_list,
    stress_ratio_list,                      \* ratios in ten-thousandths
    stress_summary_text,
    ar_pc,                                  \* axes_rotation: "idle", "done", "raised"
    rotated,                                \* the table axes_rotation last returned
    gp_pc,                                  \* get_stress_plot: "idle", "done", "raised"
    plotted,                                \* the edges get_stress_plot has drawn
    th_pc                                   \* get_THOR_plot: "idle", "suppressed", "done", "raised"

rawVars ==
    <<rd_pc, raw_data_list, stress_analysis_line_number,
      pipe_stress_summary_start_line_number, pipe_stress_summary_end_line_number,
      coversheet_parameter_dic, raw_segment_parameter_list, parsing_raw_geometry,
      first_single_node_in_this_line, segment_all_endpoints_list,
      THOR_node_dic, THOR_input_error>>

loadVars == <<lc_pc, load_case_list>>

connVars == <<cn_pc, node_connectivity_array>>

coordVars == <<co_pc, all_coordinate_id_list, loadcase_geometry_dic>>

stressVars == <<st_pc, sustained_stresses>>

summaryVars == <<sm_pc, stress_summary_list, stress_ratio_list, stress_summary_text>>

plotVars == <<ar_pc, rotated, gp_pc, plotted, th_pc>>

stageVars ==
    <<max_blank_line_cnt, loadVars, connVars, coordVars, stressVars, summaryVars,
      plotVars>>

\* attributes assigned by __init__ and those created only by later methods
InitAttr ==
    [a \in {"raw_data_list", "load_case_list", "stress_analysis_line_number",
            "pipe_stress_summary_start_line_number",
            "pipe_stress_summary_end_line_number",
            "node_connectivity_array", "all_coordinate_id_list",
            "sustained_stresses", "stress_summary_list", "stress_ratio_list",
            "stress_summary_text"} |->
        IF a \in {"raw_data_list", "load_case_list"} THEN "None" ELSE "absent"]

SetAttr(f, names) == [a \in DOMAIN f |-> IF a \in names THEN "set" ELSE f[a]]

\* no method is between its entry and its return
Quiescent ==
    /\ rd_pc # "reading"
    /\ lc_pc # "called"
    /\ cn_pc # "called"
    /\ co_pc # "called"

(***************************************************************************)
(* parse_raw_data: THOR comment blocks                                     *)
(***************************************************************************)
RECURSIVE Split(_, _)
\* s.split(c) for a one-character separator c
Split(s, c) ==
    LET i == Find(s, <<c>>)
    IN  IF i = -1 THEN <<s>>
        ELSE <<Slice(s, 0, i)>> \o Split(SliceFrom(s, i + 1), c)

\* {i[0].strip(): i[1].strip() for i in lst}; a later pair overrides an earlier one
DictOfPairs(lst) ==
    LET keys == {Strip(lst[i][1]) : i \in DOMAIN lst}
    IN  [k \in keys |->
            Strip(lst[MaxOf({i \in DOMAIN lst : Strip(lst[i][1]) = k})][2])]

\* THORStep storing a well-formed line even after an error was flagged
THORStepIgnoringFlag(dic, err, line) ==
    IF Slice(line, 14, 23) = THOR_parameter_list[1]
    THEN LET str == Slice(line, Find(line, <<"{">>) + 1, Find(line, <<"}">>))
         IN  IF Contains(line, THOR_parameter_list[2])
             THEN LET nstart == Find(str, THOR_parameter_list[2])
                                    + Len(THOR_parameter_list[2])
                      nend   == Find(SliceFrom(str, nstart), <<",">>) + nstart
                      node_number == Strip(Remove(Slice(str, nstart, nend), "="))
                      parts  == Split(SliceFrom(str, nend + 1), ",")
                      lst    == [i \in DOMAIN parts |-> Split(parts[i], "=")]
                  IN  IF \A i \in DOMAIN lst : Len(lst[i]) >= 2
                      THEN [dic |-> Put(dic, node_number, DictOfPairs(lst)), err |-> err]
                      ELSE [dic |-> dic, err |-> TRUE]
             ELSE [dic |-> dic, err |-> TRUE]
    ELSE [dic |-> dic, err |-> err]

THORStep(dic, err, line) ==
    IF Slice(line, 14, 23) = THOR_parameter_list[1]
    THEN LET str == Slice(line, Find(line, <<"{">>) + 1, Find(line, <<"}">>))
         IN  IF Contains(line, THOR_parameter_list[2]) /\ ~err
             THEN LET nstart == Find(str, THOR_parameter_list[2])
                                    + Len(THOR_parameter_list[2])
                      nend   == Find(SliceFrom(str, nstart), <<",">>) + nstart
                      node_number == Strip(Remove(Slice(str, nstart, nend), "="))
                      parts  == Split(SliceFrom(str, nend + 1), ",")
                      lst    == [i \in DOMAIN parts |-> Split(parts[i], "=")]
                  IN  IF \A i \in DOMAIN lst : Len(lst[i]) >= 2
                      THEN [dic |-> Put(dic, node_number, DictOfPairs(lst)), err |-> err]
                      ELSE [dic |-> dic, err |-> TRUE]
             ELSE [dic |-> dic, err |-> TRUE]
    ELSE [dic |-> dic, err |-> err]

(***************************************************************************)
(* parse_raw_data: coversheet parameters carried by comment lines          *)
(***************************************************************************)
ParameterKey(line) ==
    Strip(Slice(line,
                Find(line, parameter_start_key) + Len(parameter_start_key),
                Find(line, parameter_end_key)))

\* ParameterValue taken after the last "=" of the line instead of the first
ParameterValueAfterLastEq(line) ==
    LET eqs == {i \in 0..Len(line) : MatchAt(line, parameter_end_key, i)}
    IN  Slice(line, (IF eqs = {} THEN -1 ELSE MaxOf(eqs)) + 1, Len(line))

\* line[parameter_value_start_character:parameter_value_end_character]
ParameterValue(line) ==
    Slice(line, Find(line, parameter_end_key) + 1, Len(line))

\* StoreSingle without the catalog test
StoreSingleAnyKey(dic, key, line) ==
    Put(dic, key, Strip(ParameterValue(line)))

StoreSingle(dic, key, line) ==
    IF key \in coversheet_parameter_list
    THEN Put(dic, key, Strip(ParameterValue(line)))
    ELSE dic

StoreRepeatable(dic, key, line) ==
    IF key \in coversheet_set_list
    THEN Put(dic, key,
             Append(IF key \in DOMAIN dic THEN dic[key] ELSE <<>>,
                    Strip(ParameterValue(line))))
    ELSE dic

StoreLongText(dic, key, line) ==
    IF key \in long_text_parameter_list
    THEN Put(dic, key,
             (IF key \in DOMAIN dic THEN dic[key] ELSE <<>>)
                 \o Remove(ParameterValue(line), "\n"))
    ELSE dic

CoversheetStep(dic, line) ==
    IF Contains(line, parameter_start_key)
    THEN LET key == ParameterKey(line)
         IN  StoreLongText(StoreRepeatable(StoreSingle(dic, key, line), key, line),
                           key, line)
    ELSE dic

(***************************************************************************)
(* parse_raw_data: geometry cards of the INPUT CARD IMAGES section         *)
(***************************************************************************)
Entry(id) == [id |-> id, params |-> EmptyDic]

\* elements of segment_all_endpoints_list: a string or a two-element list
StrItem(s) == [str |-> s]
ListItem(p) == [list |-> p]

HasEndpoints(line) ==
    /\ Remove(Slice(line, 13, 19), " ") # <<>>
    /\ ~Contains(line, comment_key)

EndpointsOf(line) == <<Strip(Slice(line, 13, 16)), Strip(Slice(line, 16, 19))>>

NonBlankCount(eps) == Cardinality({i \in 1..2 : eps[i] # <<>>})

\* EndpointStep with a continuation card that adds the new endpoint only
EndpointStepNoInferredFrom(g, line) ==
    IF HasEndpoints(line)
    THEN LET eps  == EndpointsOf(line)
             all1 == Append(g.all, ListItem(eps))
             n    == Len(all1)
         IN  IF all1[n] # all1[n - 1]
             THEN IF NonBlankCount(eps) = 1 /\ g.first = "None"
                  THEN [first |-> "True",
                        all   |-> [all1 EXCEPT ![1] = StrItem(eps[2])],
                        segs  |-> Append(g.segs, Entry(eps[2]))]
                  ELSE IF NonBlankCount(eps) = 1
                  THEN [first |-> "False",
                        all   |-> all1,
                        segs  |-> Append(g.segs, Entry(eps[2]))]
                  ELSE [first |-> "False",
                        all   |-> all1,
                        segs  |-> g.segs \o <<Entry(eps[1]), Entry(eps[2])>>]
             ELSE [g EXCEPT !.all = all1]
    ELSE g

\* EndpointStep in which every single-endpoint card starts anew
EndpointStepSingleRestarts(g, line) ==
    IF HasEndpoints(line)
    THEN LET eps  == EndpointsOf(line)
             all1 == Append(g.all, ListItem(eps))
             n    == Len(all1)
         IN  IF all1[n] # all1[n - 1]
             THEN IF NonBlankCount(eps) = 1
                  THEN [first |-> "True",
                        all   |-> [all1 EXCEPT ![1] = StrItem(eps[2])],
                        segs  |-> Append(g.segs, Entry(eps[2]))]
                  ELSE [first |-> "False",
                        all   |-> all1,
                        segs  |-> g.segs \o <<Entry(eps[1]), Entry(eps[2])>>]
             ELSE [g EXCEPT !.all = all1]
    ELSE g

\* EndpointStep without the comparison with the previous endpoint card
EndpointStepNoRepeatTest(g, line) ==
    IF HasEndpoints(line)
    THEN LET eps  == EndpointsOf(line)
             all1 == Append(g.all, ListItem(eps))
         IN  IF NonBlankCount(eps) = 1 /\ g.first = "None"
             THEN [first |-> "True",
                   all   |-> [all1 EXCEPT ![1] = StrItem(eps[2])],
                   segs  |-> Append(g.segs, Entry(eps[2]))]
             ELSE IF NonBlankCount(eps) = 1
             THEN [first |-> "False",
                   all   |-> all1,
                   segs  |-> g.segs \o <<Entry(g.segs[Len(g.segs)].id),
                                          Entry(eps[2])>>]
             ELSE [first |-> "False",
                   all   |-> all1,
                   segs  |-> g.segs \o <<Entry(eps[1]), Entry(eps[2])>>]
    ELSE g

\* g = [first, all, segs]: the mode flag, the endpoint history and the entry list
EndpointStep(g, line) ==
    IF HasEndpoints(line)
    THEN LET eps  == EndpointsOf(line)
             all1 == Append(g.all, ListItem(eps))
             n    == Len(all1)
         IN  IF all1[n] # all1[n - 1]
             THEN IF NonBlankCount(eps) = 1 /\ g.first = "None"
                  THEN [first |-> "True",
                        all   |-> [all1 EXCEPT ![1] = StrItem(eps[2])],
                        segs  |-> Append(g.segs, Entry(eps[2]))]
                  ELSE IF NonBlankCount(eps) = 1
                  THEN [first |-> "False",
                        all   |-> all1,
                        segs  |-> g.segs \o <<Entry(g.segs[Len(g.segs)].id),
                                               Entry(eps[2])>>]
                  ELSE [first |-> "False",
                        all   |-> all1,
                        segs  |-> g.segs \o <<Entry(eps[1]), Entry(eps[2])>>]
             ELSE [g EXCEPT !.all = all1]
    ELSE g

KeywordValue(line, keyword) ==
    LET start == Find(line, keyword) + Len(keyword)
        rel   == Find(SliceFrom(line, start), <<",">>)
        end   == IF rel = -1 THEN FallbackEndColumn ELSE rel + start
    IN  Strip(Remove(Slice(line, start, end), " "))

SetParam(segs, i, k, v) == [segs EXCEPT ![i].params = Put(@, k, v)]

\* KeywordStep that in paired mode writes the value to the last entry only
KeywordStepLastOnly(segs, first, line, keyword) ==
    IF Contains(line, keyword) /\ ~Contains(line, comment_key)
    THEN IF first = "None" THEN segs
         ELSE SetParam(segs, Len(segs), Slice(keyword, 0, -1), KeywordValue(line, keyword))
    ELSE segs

KeywordStep(segs, first, line, keyword) ==
    IF Contains(line, keyword) /\ ~Contains(line, comment_key)
    THEN LET v == KeywordValue(line, keyword)
             k == Slice(keyword, 0, -1)
             n == Len(segs)
         IN  IF first = "True"
             THEN SetParam(segs, n, k, v)
             ELSE IF first = "False"
             THEN SetParam(SetParam(segs, n - 1, k, v), n, k, v)
             ELSE IF /\ ~Contains(line, comment_key)
                     /\ first = "False"
                     /\ k \notin DOMAIN segs[n].params
             THEN IF n >= 3 /\ k \in DOMAIN segs[n - 2].params
                  THEN SetParam(SetParam(segs, n - 1, k, segs[n - 2].params[k]),
                                n, k, segs[n - 2].params[k])
                  ELSE segs
             ELSE segs
    ELSE segs

IsGeometryEnd(line) ==
    \/ Contains(line, input_card_end_keyword)
    \/ Slice(line, 10, 13) \in end_geometry_keyword_list

\* the body of "if parsing_raw_geometry:" applied to g = [parsing, first, all, segs]
GeometryStep(g, line) ==
    IF ~g.parsing THEN g
    ELSE IF IsGeometryEnd(line) THEN [g EXCEPT !.parsing = FALSE]
    ELSE LET e  == EndpointStep([first |-> g.first, all |-> g.all, segs |-> g.segs], line)
             s1 == KeywordStep(e.segs, e.first, line, nozzle_analysis_keyword_list[1])
             s2 == KeywordStep(s1, e.first, line, nozzle_analysis_keyword_list[2])
         IN  [parsing |-> TRUE, first |-> e.first, all |-> e.all, segs |-> s2]

(***************************************************************************)
(* parse_raw_data                                                          *)
(***************************************************************************)
\* the statements before the file is opened, a being the attributes the
\* caller holds at that point
ParseRawDataStartFrom(a) ==
    /\ rd_pc = "idle"
    /\ rd_pc' = "reading"
    /\ raw_data_list' = <<>>
    /\ attr' = [SetAttr(a, {"raw_data_list"}) EXCEPT
                   !["pipe_stress_summary_start_line_number"] = "None",
                   !["pipe_stress_summary_end_line_number"] = "None"]
    /\ pipe_stress_summary_start_line_number' = 0
    /\ pipe_stress_summary_end_line_number' = 0
    /\ coversheet_parameter_dic' = EmptyDic
    /\ raw_segment_parameter_list' = <<>>
    /\ parsing_raw_geometry' = FALSE
    /\ first_single_node_in_this_line' = "None"
    /\ segment_all_endpoints_list' = <<StrItem(<<>>)>>
    /\ THOR_node_dic' = EmptyDic
    /\ THOR_input_error' = FALSE
    /\ UNCHANGED stress_analysis_line_number

ParseRawDataStart == ParseRawDataStartFrom(attr)

\* one iteration of "for line_cnt, line in enumerate(raw_data)"
ReadLine(line) ==
    /\ rd_pc = "reading"
    /\ LET line_cnt == Len(raw_data_list)
           thor     == THORStep(THOR_node_dic, THOR_input_error, line)
           isStress == Contains(line, stress_analysis_keyword)
           isStart  == Contains(line, pipe_stress_summary_keyword)
           startSet == isStart \/ attr["pipe_stress_summary_start_line_number"] = "set"
           isEnd    == startSet /\ Contains(line, pipe_stress_summary_end_keyword)
           g        == GeometryStep([parsing |-> parsing_raw_geometry,
                                     first   |-> first_single_node_in_this_line,
                                     all     |-> segment_all_endpoints_list,
                                     segs    |-> raw_segment_parameter_list], line)
       IN  /\ raw_data_list' = Append(raw_data_list, line)
           /\ THOR_node_dic' = thor.dic
           /\ THOR_input_error' = thor.err
           /\ stress_analysis_line_number' =
                  IF isStress THEN line_cnt ELSE stress_analysis_line_number
           /\ pipe_stress_summary_start_line_number' =
                  IF isStart THEN line_cnt ELSE pipe_stress_summary_start_line_number
           /\ pipe_stress_summary_end_line_number' =
                  IF isEnd THEN line_cnt ELSE pipe_stress_summary_end_line_number
           /\ attr' = SetAttr(attr,
                  (IF isStress THEN {"stress_analysis_line_number"} ELSE {})
                  \cup (IF isStart THEN {"pipe_stress_summary_start_line_number"} ELSE {})
                  \cup (IF isEnd THEN {"pipe_stress_summary_end_line_number"} ELSE {}))
           /\ coversheet_parameter_dic' = CoversheetStep(coversheet_parameter_dic, line)
           /\ parsing_raw_geometry' =
                  IF Contains(line, input_card_start_keyword) THEN TRUE ELSE g.parsing
           /\ first_single_node_in_this_line' = g.first
           /\ segment_all_endpoints_list' = g.all
           /\ raw_segment_parameter_list' = g.segs
    /\ UNCHANGED <<rd_pc, stageVars>>

\* the file is exhausted and closed
ParseRawDataEnd ==
    /\ rd_pc = "reading"
    /\ rd_pc' = "done"
    /\ UNCHANGED <<attr, raw_data_list, stress_analysis_line_number,
                   pipe_stress_summary_start_line_number,
                   pipe_stress_summary_end_line_number,
                   coversheet_parameter_dic, raw_segment_parameter_list,
                   parsing_raw_geometry, first_single_node_in_this_line,
                   segment_all_endpoints_list, THOR_node_dic, THOR_input_error,
                   stageVars>>

\* parse_raw_data called on its own
CallParseRawData ==
    /\ ParseRawDataStart
    /\ UNCHANGED stageVars

(***************************************************************************)
(* parse_load_cases                                                        *)
(***************************************************************************)
load_case_keyword == <<"L","D","C","A","S","E","=">>

load_case_keyword_end == <<"(">>

LoadCaseName(line) ==
    Slice(line,
          Find(line, load_case_keyword) + Len(load_case_keyword),
          Find(line, load_case_keyword_end))

\* ScanStops with the threshold itself already ending the scan
ScanStopsAtThreshold(cnt, max) == cnt >= max

\* "if no_loadcase_line_cnt > self.max_blank_line_cnt: break"
ScanStops(cnt, max) == cnt > max

RECURSIVE LoadCaseLoop(_, _, _)
\* the for loop over the lines still to scan; st = [list, loading, cnt]
LoadCaseLoop(lines, st, max) ==
    IF lines = <<>> \/ ScanStops(st.cnt, max) THEN st.list
    ELSE IF Contains(Head(lines), load_case_keyword)
    THEN LoadCaseLoop(Tail(lines),
                      [list    |-> Append(st.list, LoadCaseName(Head(lines))),
                       loading |-> TRUE,
                       cnt     |-> 0],
                      max)
    ELSE IF st.loading
    THEN LoadCaseLoop(Tail(lines), [st EXCEPT !.cnt = @ + 1], max)
    ELSE LoadCaseLoop(Tail(lines), st, max)

\* entry of parse_load_cases: parse_raw_data is started when no lines are held
ParseLoadCasesEnter ==
    /\ lc_pc = "idle"
    /\ Quiescent
    /\ lc_pc' = "called"
    /\ IF attr["raw_data_list"] = "None"
       THEN ParseRawDataStart
       ELSE UNCHANGED <<attr, rawVars>>
    /\ UNCHANGED <<max_blank_line_cnt, load_case_list, connVars, coordVars,
                   stressVars, summaryVars, plotVars>>

\* the scan of raw_data_list
ParseLoadCasesScan ==
    /\ lc_pc = "called"
    /\ rd_pc = "done"
    /\ lc_pc' = "done"
    /\ load_case_list' =
           LoadCaseLoop(raw_data_list,
                        [list |-> <<>>, loading |-> FALSE, cnt |-> 0],
                        max_blank_line_cnt)
    /\ attr' = SetAttr(attr, {"load_case_list"})
    /\ UNCHANGED <<rawVars, max_blank_line_cnt, connVars, coordVars, stressVars,
                   summaryVars, plotVars>>

(***************************************************************************)
(* get_node_connectivities                                                 *)
(***************************************************************************)
Digits == {"0","1","2","3","4","5","6","7","8","9"}

\* s.isnumeric()
IsNumeric(s) == s # <<>> /\ \A i \in DOMAIN s : s[i] \in Digits

\* line[a:b].replace(" ","").replace("*","").replace(".","").isnumeric()
NumericOrPlaceholder(line, a, b) ==
    IsNumeric(Remove(Remove(Remove(Slice(line, a, b), " "), "*"), "."))

node_connectivity_keyword == <<" ","F","R","O","M"," ">>

end_of_section_banner ==
    <<"P","I","P","I","N","G"," ","S","T","R","E","S","S"," ","S","U","M","M","A","R","Y"," ","C","H","E","C","K"," ","A","N","D"," ","C","O","V","E","R"," ","S","H","E","E","T">>

\* stands for the initial node_connectivity_start_line, 10**100
NoHeaderYet == 1000000

\* distance from the header line to the line that enables parsing
HeaderOffset == 4

IsConnectivityRow(line) == NumericOrPlaceholder(line, 25, 115)

\* ParsingStarts enabling the parse one line early
ParsingStartsOneEarly(line_cnt, start) == line_cnt = start + HeaderOffset - 1

\* "if line_cnt == node_connectivity_start_line + 4"
ParsingStarts(line_cnt, start) == line_cnt = start + HeaderOffset

RECURSIVE ConnectivityLoop(_, _, _)
\* the for loop from line_cnt on; st = [start, parse_data, edges]
ConnectivityLoop(node_stress_list, line_cnt, st) ==
    IF line_cnt >= Len(node_stress_list) THEN st.edges
    ELSE LET line   == node_stress_list[line_cnt + 1]
             start1 == IF Contains(line, node_connectivity_keyword)
                       THEN line_cnt ELSE st.start
             pd1    == IF ParsingStarts(line_cnt, start1) THEN TRUE ELSE st.parse_data
             edges1 == IF /\ pd1
                          /\ IsConnectivityRow(line)
                          /\ line_cnt + 1 < Len(node_stress_list)
                          /\ IsConnectivityRow(node_stress_list[line_cnt + 2])
                       THEN Append(st.edges,
                                   <<Strip(Slice(line, 0, 8)),
                                     Strip(Slice(node_stress_list[line_cnt + 2], 0, 8))>>)
                       ELSE st.edges
             pd2    == IF pd1 /\ Contains(line, end_of_section_banner)
                       THEN FALSE ELSE pd1
         IN  ConnectivityLoop(node_stress_list, line_cnt + 1,
                              [start |-> start1, parse_data |-> pd2, edges |-> edges1])

\* self.raw_data_list[self.stress_analysis_line_number:]
NodeStressList == SliceFrom(raw_data_list, stress_analysis_line_number)

\* entry of get_node_connectivities: parse_raw_data is started when no lines are held
GetNodeConnectivitiesEnter ==
    /\ cn_pc = "idle"
    /\ Quiescent
    /\ cn_pc' = "called"
    /\ IF attr["raw_data_list"] = "None"
       THEN ParseRawDataStart
       ELSE UNCHANGED <<attr, rawVars>>
    /\ UNCHANGED <<max_blank_line_cnt, loadVars, node_connectivity_array,
                   coordVars, stressVars, summaryVars, plotVars>>

\* the scan of the stress-analysis section; reading stress_analysis_line_number
\* raises AttributeError when no line set it
GetNodeConnectivitiesScan ==
    /\ cn_pc = "called"
    /\ rd_pc = "done"
    /\ IF attr["stress_analysis_line_number"] = "set"
       THEN /\ cn_pc' = "done"
            /\ node_connectivity_array' =
                   ConnectivityLoop(NodeStressList, 0,
                                    [start |-> NoHeaderYet, parse_data |-> FALSE,
                                     edges |-> <<>>])
            /\ attr' = SetAttr(attr, {"node_connectivity_array"})
       ELSE /\ cn_pc' = "raised"
            /\ UNCHANGED <<node_connectivity_array, attr>>
    /\ UNCHANGED <<rawVars, max_blank_line_cnt, loadVars, coordVars, stressVars,
                   summaryVars, plotVars>>

(***************************************************************************)
(* parse_node_coordinates                                                  *)
(***************************************************************************)
data_echo_keyword == <<"N","O","D","E"," ","D","A","T","A">>

element_data_keyword == <<"E","L","E","M","E","N","T"," ","D","A","T","A">>

midpoint_suffix == <<" ","M">>

\* node_connectivity_array[:,0] and [:,1] as sets
FromColumn(arr) == {arr[i][1] : i \in DOMAIN arr}

ToColumn(arr) == {arr[i][2] : i \in DOMAIN arr}

\* line[34:61].replace("-","").replace(".","").replace(" ","").isnumeric()
IsCoordinateRow(line) ==
    IsNumeric(Remove(Remove(Remove(Slice(line, 34, 61), "-"), "."), " "))

\* the raw id has no edge of its own but its suffixed form has one
UseSuffixedId(node_id_raw, arr) ==
    /\ node_id_raw \notin FromColumn(arr)
    /\ node_id_raw \notin ToColumn(arr)
    /\ (node_id_raw \o midpoint_suffix) \in (FromColumn(arr) \cup ToColumn(arr))

\* node_id_to_store of a qualifying row
NodeIdToStore(line, arr) ==
    LET node_id_raw == Strip(Slice(line, 0, 8))
    IN  IF UseSuffixedId(node_id_raw, arr)
        THEN node_id_raw \o midpoint_suffix
        ELSE Strip(Slice(line, 0, 6))

RECURSIVE CoordinateLoop(_, _, _, _, _)
\* the for loop over raw_data_list; st = [parse_data, current, geo, ids, raised];
\* subscripting an array that was never built (AttributeError) or that has no
\* edge and hence one dimension (IndexError) raises at the first qualifying row
CoordinateLoop(lines, st, lcl, arr, arrBuilt) ==
    IF lines = <<>> \/ st.raised THEN st
    ELSE LET line  == Head(lines)
             name  == Strip(Slice(line, 15, 24))
             isNew == Contains(line, data_echo_keyword)
                      /\ \E i \in DOMAIN lcl : lcl[i] = name
             cur1  == IF isNew THEN <<name>> ELSE st.current
             pd1   == IF isNew THEN TRUE ELSE st.parse_data
             pd2   == IF pd1 /\ Contains(line, element_data_keyword) THEN FALSE ELSE pd1
             row   == pd2 /\ IsCoordinateRow(line) /\ cur1 # <<>>
             id    == NodeIdToStore(line, arr)
             rec   == <<id, Slice(line, 33, 39), Slice(line, 44, 50), Slice(line, 55, 61)>>
             st1   == [st EXCEPT !.parse_data = pd2, !.current = cur1]
         IN  IF ~row THEN CoordinateLoop(Tail(lines), st1, lcl, arr, arrBuilt)
             ELSE IF ~arrBuilt \/ arr = <<>> THEN [st1 EXCEPT !.raised = TRUE]
             ELSE CoordinateLoop(Tail(lines),
                      [st1 EXCEPT
                          !.geo = [@ EXCEPT ![cur1[1]] = Append(@, rec)],
                          !.ids = IF UseSuffixedId(Strip(Slice(line, 0, 8)), arr)
                                  THEN @ ELSE Append(@, Remove(id, " "))],
                      lcl, arr, arrBuilt)

\* the load cases of geometry_dic that received at least one record
PopulatedOnly(geo) ==
    [key \in {k \in DOMAIN geo : Len(geo[k]) > 0} |-> geo[key]]

\* entry of parse_node_coordinates: the registry is emptied, and
\* parse_load_cases, and through it parse_raw_data, is entered when
\* load_case_list is None
ParseNodeCoordinatesEnter ==
    /\ co_pc = "idle"
    /\ Quiescent
    /\ co_pc' = "called"
    /\ all_coordinate_id_list' = <<>>
    /\ IF attr["load_case_list"] = "None" /\ attr["raw_data_list"] = "None"
       THEN ParseRawDataStartFrom(SetAttr(attr, {"all_coordinate_id_list"}))
       ELSE /\ attr' = SetAttr(attr, {"all_coordinate_id_list"})
            /\ UNCHANGED rawVars
    /\ UNCHANGED <<max_blank_line_cnt, loadVars, connVars, loadcase_geometry_dic,
                   stressVars, summaryVars, plotVars>>

\* the scan of raw_data_list, after that of parse_load_cases when
\* load_case_list was None
ParseNodeCoordinatesScan ==
    /\ co_pc = "called"
    /\ rd_pc = "done"
    /\ LET lcl == IF attr["load_case_list"] = "None"
                  THEN LoadCaseLoop(raw_data_list,
                                    [list |-> <<>>, loading |-> FALSE, cnt |-> 0],
                                    max_blank_line_cnt)
                  ELSE load_case_list
           r   == CoordinateLoop(raw_data_list,
                                 [parse_data |-> FALSE, current |-> <<>>,
                                  geo |-> [key \in {lcl[i] : i \in DOMAIN lcl} |-> <<>>],
                                  ids |-> <<>>, raised |-> FALSE],
                                 lcl, node_connectivity_array,
                                 attr["node_connectivity_array"] = "set")
       IN  /\ load_case_list' = lcl
           /\ attr' = SetAttr(attr, {"load_case_list"})
           /\ all_coordinate_id_list' = r.ids
           /\ IF r.raised
              THEN /\ co_pc' = "raised"
                   /\ UNCHANGED loadcase_geometry_dic
              ELSE /\ co_pc' = "done"
                   /\ loadcase_geometry_dic' = PopulatedOnly(r.geo)
    /\ UNCHANGED <<rawVars, max_blank_line_cnt, lc_pc, connVars, stressVars,
                   summaryVars, plotVars>>

(***************************************************************************)
(* parse_stresses                                                          *)
(***************************************************************************)
\* len(line) > 130 and line[18:130] numeric up to "*", " " and "."
IsStressRow(line) == Len(line) > 130 /\ NumericOrPlaceholder(line, 18, 130)

\* the id a stress row is stored under, given the registry of coordinate ids
StressNodeId(line, ids) ==
    LET node_id == Strip(Slice(line, 0, 7))
        known   == {ids[i] : i \in DOMAIN ids}
    IN  IF node_id \notin known /\ Slice(node_id, 0, -1) \in known
        THEN Slice(node_id, 0, -1)
        ELSE node_id

RECURSIVE StressLoop(_, _, _, _)
\* the for loop over raw_data_list[start:]; st = [list, raised]; reading a
\* registry that parse_node_coordinates never created raises AttributeError
StressLoop(lines, st, ids, idsBuilt) ==
    IF lines = <<>> \/ st.raised THEN st
    ELSE LET line == Head(lines)
         IN  IF ~IsStressRow(line) THEN StressLoop(Tail(lines), st, ids, idsBuilt)
             ELSE IF ~idsBuilt THEN [st EXCEPT !.raised = TRUE]
             ELSE StressLoop(Tail(lines),
                      [st EXCEPT !.list =
                          Append(@, <<StressNodeId(line, ids),
                                      Strip(Slice(line, 28, 35)),
                                      Strip(Slice(line, 35, 44))>>)],
                      ids, idsBuilt)

\* parse_stresses; reading stress_analysis_line_number raises AttributeError
\* when no line set it
ParseStresses ==
    /\ st_pc = "idle"
    /\ Quiescent
    /\ LET r == StressLoop(NodeStressList, [list |-> <<>>, raised |-> FALSE],
                           all_coordinate_id_list,
                           attr["all_coordinate_id_list"] = "set")
       IN  IF attr["stress_analysis_line_number"] = "set" /\ ~r.raised
           THEN /\ st_pc' = "done"
                /\ sustained_stresses' = r.list
                /\ attr' = SetAttr(attr, {"sustained_stresses"})
           ELSE /\ st_pc' = "raised"
                /\ UNCHANGED <<sustained_stresses, attr>>
    /\ UNCHANGED <<rawVars, max_blank_line_cnt, loadVars, connVars, coordVars,
                   summaryVars, plotVars>>

(***************************************************************************)
(* parse_pipe_stress_summary                                               *)
(***************************************************************************)
leading_lines == 16

extra_end_lines == 2

\* first column of the ratio field, and the column after its last
RatioColumn == 72

RatioColumnEnd == 79

summary_not_found_line == <<"E","r","r","o","r",":"," ","P","i","p","e"," ","s","t","r","e","s","s"," ","s","u","m","m","a","r","y"," ","n","o","t"," ","f","o","u","n","d"," ","i","n"," ","o","u","t","p","u","t"," ","f","i","l","e",".">>

\* stress_summary_text: which sentence was chosen, and the maximum it quotes
NoText == [kind |-> "unset", max |-> <<>>]

DigitValue(c) == CHOOSE n \in 0..9 : ToString(n) = c

RECURSIVE DecimalValue(_)
\* the natural number a digit string denotes
DecimalValue(s) ==
    IF s = <<>> THEN 0
    ELSE 10 * DecimalValue(SubSeq(s, 1, Len(s) - 1)) + DigitValue(s[Len(s)])

\* ten-thousandths in one
Unit == 10000

FractionDigits == 4

\* float(s) for a plain decimal: optional sign, digits, optional point and
\* digits; ok = FALSE is ValueError.  Values are held in ten-thousandths, so
\* fraction digits past the fourth are dropped; exponents, underscores and the
\* words float() reads as infinity or not-a-number are outside this operator.
ParseFloat(s) ==
    LET u      == Strip(s)
        signed == u # <<>> /\ u[1] \in {"-", "+"}
        body   == IF signed THEN Tail(u) ELSE u
        dot    == Find(body, <<".">>)
        whole  == IF dot = -1 THEN body ELSE Slice(body, 0, dot)
        frac   == IF dot = -1 THEN <<>> ELSE SliceFrom(body, dot + 1)
        frac4  == Slice(frac \o <<"0","0","0","0">>, 0, FractionDigits)
        ok     == /\ whole \o frac # <<>>
                  /\ \A i \in DOMAIN whole : whole[i] \in Digits
                  /\ \A i \in DOMAIN frac : frac[i] \in Digits
        mag    == DecimalValue(whole) * Unit + DecimalValue(frac4)
    IN  [ok |-> ok, val |-> IF ~ok THEN 0 ELSE IF signed /\ u[1] = "-" THEN -mag ELSE mag]

RECURSIVE NatToStr(_)
NatToStr(n) ==
    IF n < 10 THEN <<ToString(n)>>
    ELSE NatToStr(n \div 10) \o <<ToString(n % 10)>>

\* f"{v:.3f}" for v >= 0 in ten-thousandths, rounded to the nearest
\* thousandth (a fourth digit of 5 rounds as the binary value falls)
Format3(v) ==
    LET t == (v + 5) \div 10
    IN  NatToStr(t \div 1000) \o <<".">>
        \o <<ToString((t \div 100) % 10), ToString((t \div 10) % 10), ToString(t % 10)>>

\* i.replace("\n","") (no line of the model holds the control character the
\* code also blanks)
CleanLine(line) == Remove(line, "\n")

\* line[72:79].strip().replace("*","") if len(line) >= 79 else ""
StressRatioStr(line) ==
    IF Len(line) >= RatioColumnEnd
    THEN Remove(Strip(Slice(line, RatioColumn, RatioColumnEnd)), "*")
    ELSE <<>>

RECURSIVE RatioLoop(_)
\* the for loop over stress_summary_list
RatioLoop(lines) ==
    IF lines = <<>> THEN <<>>
    ELSE LET f == ParseFloat(StressRatioStr(Head(lines)))
         IN  (IF f.ok THEN <<f.val>> ELSE <<>>) \o RatioLoop(Tail(lines))

MaxRatio(ratios) == MaxOf({ratios[i] : i \in DOMAIN ratios})

\* MeetsAllowable with a maximum of exactly one still meeting
MeetsAllowableInclusive(max_ratio) == max_ratio <= Unit

\* "elif max(self.stress_ratio_list) < 1.0"
MeetsAllowable(max_ratio) == max_ratio < Unit

SummaryText(ratios) ==
    IF ratios = <<>> THEN [kind |-> "no_ratios", max |-> <<>>]
    ELSE IF MeetsAllowable(MaxRatio(ratios)) THEN [kind |-> "meeting", max |-> <<>>]
    ELSE [kind |-> "exceeded", max |-> Format3(MaxRatio(ratios))]

\* parse_pipe_stress_summary; the section boundaries exist only once
\* parse_raw_data has run, and reading them before that raises AttributeError
ParsePipeStressSummary ==
    /\ sm_pc = "idle"
    /\ Quiescent
    /\ IF attr["pipe_stress_summary_start_line_number"] = "absent"
       THEN /\ sm_pc' = "raised"
            /\ UNCHANGED <<stress_summary_list, stress_ratio_list,
                           stress_summary_text, attr>>
       ELSE /\ sm_pc' = "done"
            /\ attr' = SetAttr(attr, {"stress_summary_list", "stress_ratio_list",
                                      "stress_summary_text"})
            /\ IF \/ attr["pipe_stress_summary_start_line_number"] = "None"
                  \/ attr["pipe_stress_summary_end_line_number"] = "None"
               THEN /\ stress_summary_list' = <<summary_not_found_line>>
                    /\ stress_summary_text' = [kind |-> "not_found", max |-> <<>>]
                    /\ stress_ratio_list' = <<>>
               ELSE LET start_index ==
                            MaxOf({0, pipe_stress_summary_start_line_number - leading_lines})
                        end_index ==
                            pipe_stress_summary_end_line_number + extra_end_lines
                        raw   == Slice(raw_data_list, start_index, end_index)
                        clean == [i \in DOMAIN raw |-> CleanLine(raw[i])]
                    IN  /\ stress_summary_list' = clean
                        /\ stress_ratio_list' = RatioLoop(clean)
                        /\ stress_summary_text' = SummaryText(RatioLoop(clean))
    /\ UNCHANGED <<rawVars, max_blank_line_cnt, loadVars, connVars, coordVars,
                   stressVars, plotVars>>

(***************************************************************************)
(* axes_rotation and get_stress_plot                                       *)
(***************************************************************************)
\* astype(float) of one coordinate string, in ten-thousandths
CoordinateValue(str) == ParseFloat(str).val

\* RotateRow without the sign change of the second output column
RotateRowNoFlip(row) ==
    <<row[1], CoordinateValue(row[2]), CoordinateValue(row[4]), CoordinateValue(row[3])>>

\* one row of np.hstack([node, 1*X, -1*Z, 1*Y])
RotateRow(row) ==
    <<row[1], CoordinateValue(row[2]), -CoordinateValue(row[4]), CoordinateValue(row[3])>>

\* every coordinate string of the table converts with astype(float)
Convertible(table) ==
    \A i \in DOMAIN table : \A c \in 2..4 : ParseFloat(table[i][c]).ok

\* axes_rotation(loadcase, plant_name) returns normally: the load case has a
\* table (else KeyError), the convention is "hc" (else the four arrays are
\* unbound) and the strings convert (else ValueError)
RotationReturns(loadcase, plant_name) ==
    /\ loadcase \in DOMAIN loadcase_geometry_dic
    /\ plant_name = "hc"
    /\ Convertible(loadcase_geometry_dic[loadcase])

RotatedTable(loadcase) ==
    [i \in DOMAIN loadcase_geometry_dic[loadcase] |->
        RotateRow(loadcase_geometry_dic[loadcase][i])]

PlantNames == {"hc", "other"}

\* a call of axes_rotation
AxesRotation(loadcase, plant_name) ==
    /\ ar_pc = "idle"
    /\ Quiescent
    /\ IF RotationReturns(loadcase, plant_name)
       THEN /\ ar_pc' = "done"
            /\ rotated' = RotatedTable(loadcase)
       ELSE /\ ar_pc' = "raised"
            /\ UNCHANGED rotated
    /\ UNCHANGED <<attr, rawVars, max_blank_line_cnt, loadVars, connVars, coordVars,
                   stressVars, summaryVars, gp_pc, plotted, th_pc>>

\* the rows of a table whose first column equals id
RowsWithId(table, id) == {i \in DOMAIN table : table[i][1] = id}

\* the body of the segment loop finishes for this edge: each endpoint selects
\* exactly one coordinate row (none or several leave an array of the wrong
\* shape, which the label and vector arithmetic reject) and at least one
\* stress row (none makes [0][0] raise IndexError)
SegmentDrawn(segment, coordinates, stresses) ==
    /\ \A e \in 1..2 : Cardinality(RowsWithId(coordinates, segment[e])) = 1
    /\ \A e \in 1..2 : RowsWithId(stresses, Strip(segment[e])) # {}

RECURSIVE SegmentLoop(_, _, _, _)
\* "for segment_cnt in range(len(self.node_connectivity_array))";
\* st = [drawn, raised]
SegmentLoop(segments, st, coordinates, stresses) ==
    IF segments = <<>> \/ st.raised THEN st
    ELSE IF SegmentDrawn(Head(segments), coordinates, stresses)
    THEN SegmentLoop(Tail(segments), [st EXCEPT !.drawn = Append(@, Head(segments))],
                     coordinates, stresses)
    ELSE [st EXCEPT !.raised = TRUE]

\* get_stress_plot(loadcase) up to the end of its segment loop; the drawing
\* calls themselves are not part of the model
GetStressPlot(loadcase) ==
    /\ gp_pc = "idle"
    /\ Quiescent
    /\ IF /\ RotationReturns(loadcase, "hc")
          /\ attr["node_connectivity_array"] = "set"
          /\ (attr["sustained_stresses"] = "set" \/ node_connectivity_array = <<>>)
       THEN LET r == SegmentLoop(node_connectivity_array,
                                 [drawn |-> <<>>, raised |-> FALSE],
                                 RotatedTable(loadcase), sustained_stresses)
            IN  /\ plotted' = r.drawn
                /\ gp_pc' = IF r.raised THEN "raised" ELSE "done"
       ELSE /\ gp_pc' = "raised"
            /\ UNCHANGED plotted
    /\ UNCHANGED <<attr, rawVars, max_blank_line_cnt, loadVars, connVars, coordVars,
                   stressVars, summaryVars, ar_pc, rotated, th_pc>>

(***************************************************************************)
(* get_THOR_plot                                                           *)
(***************************************************************************)
origin_key == <<"O","R","I","G","I","N">>

origin_coordinate_keys ==
    {<<"E","A","S","T","_","W","E","S","T","_","O","R","I","G","I","N">>, <<"U","P","_","D","O","W","N","_","O","R","I","G","I","N">>, <<"N","O","R","T","H","_","S","O","U","T","H","_","O","R","I","G","I","N">>}

\* the nodes of THOR_node_dic that declare an origin
OriginNodes == {n \in DOMAIN THOR_node_dic : origin_key \in DOMAIN THOR_node_dic[n]}

\* get_THOR_plot(loadcase).  With the error flag set it returns at once and
\* writes nothing.  Otherwise it rotates the table, looks for the origin node
\* (the first one in dictionary order, any of them here), gives up with the
\* flag set when one of its three coordinates is missing, and else draws the
\* segments it can resolve and writes the plot and the CSV file.
GetTHORPlot(loadcase) ==
    /\ th_pc = "idle"
    /\ Quiescent
    /\ IF rd_pc = "idle" THEN
            \* THOR_input_error does not exist before parse_raw_data
            /\ th_pc' = "raised"
            /\ UNCHANGED THOR_input_error
       ELSE IF THOR_input_error THEN
            /\ th_pc' = "suppressed"
            /\ UNCHANGED THOR_input_error
       ELSE IF ~RotationReturns(loadcase, "hc") THEN
            /\ th_pc' = "raised"
            /\ UNCHANGED THOR_input_error
       ELSE \E n \in OriginNodes \cup {<<"-">>} :
            /\ n \in OriginNodes \/ OriginNodes = {}
            /\ IF n \in OriginNodes /\ ~(origin_coordinate_keys \subseteq DOMAIN THOR_node_dic[n])
               THEN /\ th_pc' = "suppressed"
                    /\ THOR_input_error' = TRUE
               ELSE /\ UNCHANGED THOR_input_error
                    /\ th_pc' =
                          IF /\ attr["node_connectivity_array"] = "set"
                             /\ n \in OriginNodes =>
                                    \A k \in origin_coordinate_keys :
                                        ParseFloat(THOR_node_dic[n][k]).ok
                          THEN "done" ELSE "raised"
    /\ UNCHANGED <<attr, rd_pc, raw_data_list, stress_analysis_line_number,
                   pipe_stress_summary_start_line_number,
                   pipe_stress_summary_end_line_number, coversheet_parameter_dic,
                   raw_segment_parameter_list, parsing_raw_geometry,
                   first_single_node_in_this_line, segment_all_endpoints_list,
                   THOR_node_dic, max_blank_line_cnt, loadVars, connVars, coordVars,
                   stressVars, summaryVars, ar_pc, rotated, gp_pc, plotted>>

(***************************************************************************)
(* The object after __init__                                               *)
(***************************************************************************)
vars == <<attr, rawVars, stageVars>>

InitRaw ==
    /\ rd_pc = "idle"
    /\ raw_data_list = <<>>
    /\ stress_analysis_line_number = 0
    /\ pipe_stress_summary_start_line_number = 0
    /\ pipe_stress_summary_end_line_number = 0
    /\ coversheet_parameter_dic = EmptyDic
    /\ raw_segment_parameter_list = <<>>
    /\ parsing_raw_geometry = FALSE
    /\ first_single_node_in_this_line = "None"
    /\ segment_all_endpoints_list = <<StrItem(<<>>)>>
    /\ THOR_node_dic = EmptyDic
    /\ THOR_input_error = FALSE

InitStages ==
    /\ lc_pc = "idle"
    /\ load_case_list = <<>>
    /\ cn_pc = "idle"
    /\ node_connectivity_array = <<>>
    /\ co_pc = "idle"
    /\ all_coordinate_id_list = <<>>
    /\ loadcase_geometry_dic = EmptyDic
    /\ st_pc = "idle"
    /\ sustained_stresses = <<>>
    /\ sm_pc = "idle"
    /\ stress_summary_list = <<>>
    /\ stress_ratio_list = <<>>
    /\ stress_summary_text = NoText
    /\ ar_pc = "idle"
    /\ rotated = <<>>
    /\ gp_pc = "idle"
    /\ plotted = <<>>
    /\ th_pc = "idle"

MaxBlankLineCnt == 1

\* piping_system(output_filename, data_echo_deadweight_keywords, max_blank_line_cnt)
Init ==
    /\ attr = InitAttr
    /\ InitRaw
    /\ InitStages
    /\ max_blank_line_cnt \in 0..MaxBlankLineCnt

\* the same with the threshold the stage under study does not read held fixed
InitOneThreshold ==
    /\ Init
    /\ max_blank_line_cnt = MaxBlankLineCnt

(***************************************************************************)
(* Input lines: geometry cards                                             *)
(***************************************************************************)
Blanks(n) == [i \in 1..n |-> " "]

\* a card: columns 0-9 blank, a 3-column code, the two 3-column endpoint
\* fields, then free text
Card(code, from, to, tail) == Blanks(10) \o code \o from \o to \o tail \o <<"\n">>

NodeA == <<"1","0"," ">>
NodeB == <<" ","2","0">>
TailOD == <<" ","O","D","=","4",".","5",",">>
TailBoth == <<" ","O","D","=","6",",","T","H","I","="," ",".","3">>

GeomLines ==
    { input_card_start_keyword \o <<"\n">>,
      Blanks(3) \o input_card_end_keyword \o <<"\n">>,
      Card(<<"E","N","D">>, Blanks(3), Blanks(3), <<>>),
      Card(Blanks(3), Blanks(3), NodeA, <<>>),
      Card(Blanks(3), NodeB, Blanks(3), TailOD),
      Card(Blanks(3), NodeA, NodeB, TailBoth),
      Card(Blanks(3), NodeB, NodeA, <<>>),
      Card(Blanks(3), Blanks(3), Blanks(3), TailOD),
      Card(<<"*","*","*">>, NodeA, NodeB, TailOD) }

MaxGeomLines == 4

GeomRead ==
    \E line \in GeomLines :
        /\ Len(raw_data_list) < MaxGeomLines
        /\ ReadLine(line)

GeomNext ==
    \/ CallParseRawData
    \/ GeomRead
    \/ ParseRawDataEnd

SpecGeom == InitOneThreshold /\ [][GeomNext]_vars

(***************************************************************************)
(* Input lines: comment parameters                                         *)
(***************************************************************************)
\* lead "***/" gap KEY gap "=" VALUE newline
ParamLine(lead, key, gap, value) ==
    lead \o parameter_start_key \o gap \o key \o gap \o parameter_end_key
         \o value \o <<"\n">>

KeySTATION == <<"S","T","A","T","I","O","N">>
KeyCOMPONENT == <<"C","O","M","P","O","N","E","N","T">>
KeyDESCRIPTION == <<"D","E","S","C","R","I","P","T","I","O","N"," ","O","F"," ","C","H","A","N","G","E">>
KeyNOTE == <<"N","O","T","E">>

ParamKeys == {KeySTATION, KeyCOMPONENT, KeyDESCRIPTION, KeyNOTE}
ParamValues ==
    {<<"A">>, <<" ","A"," ","B"," ">>, <<" ","X","=","1">>, <<>>}
ParamLeads == {<<>>, <<" ">>}
ParamGaps == {<<>>, <<" ">>}

FormedParamLines ==
    {ParamLine(lead, key, lead, value) :
        lead \in ParamLeads, key \in ParamKeys, value \in ParamValues}

ParamLines ==
    FormedParamLines
    \cup { parameter_start_key \o KeySTATION \o <<"\n">>,
           <<"A"," ","B","\n">> }

MaxParamLines == 2

ParamRead ==
    \E line \in ParamLines :
        /\ Len(raw_data_list) < MaxParamLines
        /\ ReadLine(line)

ParamNext ==
    \/ CallParseRawData
    \/ ParamRead
    \/ ParseRawDataEnd

SpecParam == InitOneThreshold /\ [][ParamNext]_vars

(***************************************************************************)
(* Input lines: load-case declarations                                     *)
(***************************************************************************)
NameWTDW == <<"W","T","D","W">>
NameTHRM == <<"T","H","R","M">>

Declaration(name) ==
    <<" ">> \o load_case_keyword \o name \o <<"(","1",")","\n">>

LoadLines ==
    { Declaration(NameWTDW),
      Declaration(NameTHRM),
      <<"\n">>,
      <<" ","T","I","T","L","E","\n">> }

MaxLoadLines == 4

LoadRead ==
    \E line \in LoadLines :
        /\ Len(raw_data_list) < MaxLoadLines
        /\ ReadLine(line)

LoadNext ==
    \/ ParseLoadCasesEnter
    \/ LoadRead
    \/ ParseRawDataEnd
    \/ ParseLoadCasesScan

SpecLoad == Init /\ [][LoadNext]_vars

(***************************************************************************)
(* Input lines: the stress-analysis section                                *)
(***************************************************************************)
\* a stress row: the node id in columns 0-7, the stress value in columns
\* 28-34, the allowable in columns 35-43, blank up to column 130
StressRow(id, stress, allowable) ==
    id \o Blanks(8 - Len(id)) \o Blanks(20) \o stress \o allowable
       \o Blanks(86) \o <<"\n">>

Row10 == StressRow(<<"1","0">>, <<" "," ","1","2","0","0","0">>,
                   <<" "," "," "," ","1","5","0","0","0">>)
Row20M == StressRow(<<"2","0"," ","M">>, <<" "," "," ","9","0","0","0">>,
                    <<" "," "," "," ","*","*","*","*","*">>)

StressMarkerLine == <<" ">> \o stress_analysis_keyword \o <<"\n">>
HeaderLine == node_connectivity_keyword \o <<" "," ","T","O","\n">>
BannerLine == <<" ">> \o end_of_section_banner \o <<"\n">>
TextLine == <<" ","-","-","-","\n">>

ConnLines == {HeaderLine, TextLine, Row10, Row20M, BannerLine}

MaxConnLines == 8

Holds(lines, line) == \E i \in DOMAIN lines : lines[i] = line

\* a report with a single stress-analysis section: the section marker is the
\* first line held (what precedes it is not scanned), and the section has at
\* most one connectivity header and at most one end banner
ConnRead ==
    \E line \in ConnLines \cup {StressMarkerLine} :
        /\ Len(raw_data_list) < MaxConnLines
        /\ (line = StressMarkerLine) <=> (raw_data_list = <<>>)
        /\ line = HeaderLine => ~Holds(raw_data_list, HeaderLine)
        /\ line = BannerLine => ~Holds(raw_data_list, BannerLine)
        /\ ReadLine(line)

ConnNext ==
    \/ GetNodeConnectivitiesEnter
    \/ ConnRead
    \/ ParseRawDataEnd
    \/ GetNodeConnectivitiesScan

SpecConn == InitOneThreshold /\ [][ConnNext]_vars

(***************************************************************************)
(* Geometry cards: the number of emitted entries                           *)
(***************************************************************************)
RECURSIVE CardKinds(_, _)
\* for the lines read so far, the number of non-blank endpoint fields of each
\* endpoint-bearing non-comment line met inside the geometry section
CardKinds(lines, inside) ==
    IF lines = <<>> THEN <<>>
    ELSE LET l    == Head(lines)
             here == IF inside /\ ~IsGeometryEnd(l) /\ HasEndpoints(l)
                     THEN <<NonBlankCount(EndpointsOf(l))>>
                     ELSE <<>>
             next == IF Contains(l, input_card_start_keyword) THEN TRUE
                     ELSE IF inside /\ IsGeometryEnd(l) THEN FALSE
                     ELSE inside
         IN  here \o CardKinds(Tail(lines), next)

KindsRead == CardKinds(raw_data_list, FALSE)

Alternates(kinds) ==
    /\ \A i \in DOMAIN kinds : kinds[i] \in {1, 2}
    /\ \A i \in 1..(Len(kinds) - 1) : kinds[i] # kinds[i + 1]

CountOf(kinds, k) == Cardinality({i \in DOMAIN kinds : kinds[i] = k})

\* C2 as stated: with alternating single-endpoint and two-endpoint lines the
\* entry list holds 2 per two-endpoint line, 1 for the first single-endpoint
\* line and 2 for every later single-endpoint line.
C2_CountAsStated ==
    Alternates(KindsRead) =>
        Len(raw_segment_parameter_list) =
            2 * CountOf(KindsRead, 2)
            + (IF CountOf(KindsRead, 1) >= 1
               THEN 1 + 2 * (CountOf(KindsRead, 1) - 1)
               ELSE 0)

\* C2 amended: the first single-endpoint line counts 1 only when it is the first
\* endpoint-bearing line of the parse; after a two-endpoint line it counts 2
\* like every later single-endpoint line.
C2_Count ==
    Alternates(KindsRead) =>
        Len(raw_segment_parameter_list) =
            2 * CountOf(KindsRead, 2)
            + (IF KindsRead # <<>> /\ KindsRead[1] = 1
               THEN 1 + 2 * (CountOf(KindsRead, 1) - 1)
               ELSE 2 * CountOf(KindsRead, 1))

\* a single-endpoint line, a two-endpoint line and a continuation line were read
C2_Witness ==
    /\ KindsRead = <<1, 2, 1>>
    /\ Len(raw_segment_parameter_list) = 5

(***************************************************************************)
(* Comment parameters: round trip and catalog closure                      *)
(***************************************************************************)
Catalogs ==
    coversheet_parameter_list \cup coversheet_set_list \cup long_text_parameter_list

SameUpToWhitespace(a, b) == Strip(a) = Strip(b)

\* what reading "***/KEY = VALUE" must leave readable under KEY
ReadBack(old, new, key, value) ==
    /\ key \in DOMAIN new
    /\ key \in coversheet_parameter_list => SameUpToWhitespace(new[key], value)
    /\ key \in coversheet_set_list =>
           /\ Len(new[key]) = (IF key \in DOMAIN old THEN Len(old[key]) ELSE 0) + 1
           /\ \A i \in 1..(Len(new[key]) - 1) : new[key][i] = old[key][i]
           /\ SameUpToWhitespace(new[key][Len(new[key])], value)
    /\ key \in long_text_parameter_list =>
           LET before == IF key \in DOMAIN old THEN old[key] ELSE <<>>
           IN  /\ Len(new[key]) >= Len(before)
               /\ SubSeq(new[key], 1, Len(before)) = before
               /\ SameUpToWhitespace(SubSeq(new[key], Len(before) + 1, Len(new[key])),
                                      value)

\* C8: reading a line "***/KEY = VALUE" whose KEY is in one of the three
\* catalogs leaves under KEY the scalar, the appended list element or the
\* appended text equal to VALUE up to surrounding whitespace.
C8_RoundTrip ==
    [][\A lead \in ParamLeads, gap \in ParamGaps,
         key \in ParamKeys \cap Catalogs, value \in ParamValues :
           raw_data_list' = Append(raw_data_list, ParamLine(lead, key, gap, value))
               => ReadBack(coversheet_parameter_dic, coversheet_parameter_dic',
                           key, value)]_vars

\* two lines of a multi-line key were read and their texts appended in order
C8_Witness ==
    /\ Len(raw_data_list) = 2
    /\ KeyDESCRIPTION \in DOMAIN coversheet_parameter_dic
    /\ coversheet_parameter_dic[KeyDESCRIPTION] = <<"A"," ","X","=","1">>

\* C9: every key of coversheet_parameter_dic belongs to one of the three
\* catalogs, and a "***/" line whose key is in no catalog leaves the map
\* unchanged.
C9_CatalogClosed ==
    /\ [](DOMAIN coversheet_parameter_dic \subseteq Catalogs)
    /\ [][\A line \in ParamLines :
            (/\ raw_data_list' = Append(raw_data_list, line)
             /\ Contains(line, parameter_start_key)
             /\ ParameterKey(line) \notin Catalogs)
                => coversheet_parameter_dic' = coversheet_parameter_dic]_vars

\* a line with an uncatalogued key was read after the map had an entry
C9_Witness ==
    /\ Len(raw_data_list) = 2
    /\ Contains(raw_data_list[2], parameter_start_key)
    /\ ParameterKey(raw_data_list[2]) = KeyNOTE
    /\ DOMAIN coversheet_parameter_dic = {KeySTATION}

(***************************************************************************)
(* Load cases: end of the scan, duplicates                                 *)
(***************************************************************************)
IsDeclaration(i) == Contains(raw_data_list[i], load_case_keyword)

Declarations == {i \in DOMAIN raw_data_list : IsDeclaration(i)}

\* lines a..b are a run of non-declaration lines longer than the threshold
LongRun(a, b) ==
    /\ b - a + 1 > max_blank_line_cnt
    /\ \A j \in a..b : ~IsDeclaration(j)

\* such a run lies between line from and line i
LongRunBetween(from, i) ==
    \E a \in from..(i - 1) : \E b \in a..(i - 1) : LongRun(a, b)

RECURSIVE NamesFrom(_, _)
\* the names declared on the lines of S, in file order, from line i on
NamesFrom(i, S) ==
    IF i > Len(raw_data_list) THEN <<>>
    ELSE (IF i \in S THEN <<LoadCaseName(raw_data_list[i])>> ELSE <<>>)
             \o NamesFrom(i + 1, S)

\* C6 as stated: a declaration is added exactly when no run of more than
\* max_blank_line_cnt consecutive non-declaration lines comes before it.
C6_StopAsStated ==
    lc_pc = "done" =>
        load_case_list =
            NamesFrom(1, {i \in Declarations : ~LongRunBetween(1, i)})

\* C6 amended: runs are counted from the first declaration on; a declaration is
\* added exactly when no run of more than max_blank_line_cnt consecutive
\* non-declaration lines lies between the first declaration and it.
C6_Stop ==
    lc_pc = "done" =>
        load_case_list =
            NamesFrom(1, {i \in Declarations :
                             ~LongRunBetween(MinOf(Declarations), i)})

\* a declaration after a run one longer than the threshold was left out
C6_Witness ==
    /\ lc_pc = "done"
    /\ Len(raw_data_list) = max_blank_line_cnt + 3
    /\ Declarations = {1, Len(raw_data_list)}
    /\ load_case_list = <<NameWTDW>>

\* C7: after parse_load_cases, load_case_list holds no name twice and lists
\* the declared names in the order of their first declaration.
C7_NoDuplicates ==
    lc_pc = "done" =>
        /\ \A i, j \in DOMAIN load_case_list :
               load_case_list[i] = load_case_list[j] => i = j
        /\ \A i, j \in DOMAIN load_case_list :
               i < j =>
                   MinOf({k \in Declarations :
                             LoadCaseName(raw_data_list[k]) = load_case_list[i]})
                   < MinOf({k \in Declarations :
                             LoadCaseName(raw_data_list[k]) = load_case_list[j]})

(***************************************************************************)
(* Connectivity: the offset between the header and the first parsed row    *)
(***************************************************************************)
\* 0-based positions, in the scanned section, of the header lines and the rows
HeaderPositions ==
    {i \in 0..(Len(NodeStressList) - 1) :
        Contains(NodeStressList[i + 1], node_connectivity_keyword)}

RowPositions ==
    {i \in 0..(Len(NodeStressList) - 1) : IsConnectivityRow(NodeStressList[i + 1])}

NoBanner ==
    \A i \in DOMAIN NodeStressList :
        ~Contains(NodeStressList[i], end_of_section_banner)

RECURSIVE PairsFrom(_, _, _)
\* the edges of the adjacent row pairs of lines whose first row is at
\* position lo or later, in file order, from position i on
PairsFrom(lines, i, lo) ==
    IF i + 1 >= Len(lines) THEN <<>>
    ELSE (IF i >= lo /\ IsConnectivityRow(lines[i + 1])
                    /\ IsConnectivityRow(lines[i + 2])
          THEN << <<Strip(Slice(lines[i + 1], 0, 8)),
                    Strip(Slice(lines[i + 2], 0, 8))>> >>
          ELSE <<>>)
             \o PairsFrom(lines, i + 1, lo)

\* the section has its only header at position k and no end banner
HeaderAt(k) == HeaderPositions = {k} /\ NoBanner

\* C1 as stated: with the header at line k, rows starting at k+4 give exactly
\* the edges of the adjacent row pairs, rows starting at k+3 or k+5 give none.
C1_OffsetAsStated ==
    cn_pc = "done" =>
        \A k \in HeaderPositions :
            (HeaderAt(k) /\ RowPositions # {}) =>
                /\ MinOf(RowPositions) = k + HeaderOffset =>
                       node_connectivity_array = PairsFrom(NodeStressList, 0, 0)
                /\ MinOf(RowPositions) \in {k + HeaderOffset - 1, k + HeaderOffset + 1} =>
                       node_connectivity_array = <<>>

\* C1 amended: with the header at line k (and no end banner), exactly the
\* adjacent row pairs whose first row is at line k+4 or later are extracted:
\* all of them when the rows start at k+4 or at k+5, and all but the pair
\* starting at line k+3 when the rows start at k+3.
C1_Offset ==
    cn_pc = "done" =>
        \A k \in HeaderPositions :
            HeaderAt(k) =>
                node_connectivity_array =
                    PairsFrom(NodeStressList, 0, k + HeaderOffset)

\* the header at line 1, a row pair at lines 5 and 6, one edge extracted
C1_Witness ==
    /\ cn_pc = "done"
    /\ HeaderPositions = {1}
    /\ NoBanner
    /\ RowPositions = {5, 6}
    /\ node_connectivity_array = << << <<"1","0">>, <<"2","0"," ","M">> >> >>

(***************************************************************************)
(* Input lines: a report with load case, connectivity and NODE DATA        *)
(***************************************************************************)
Row12345M == StressRow(<<"1","2","3","4","5"," ","M">>, <<" "," "," ","8","0","0","0">>,
                       <<" "," "," "," ","1","5","0","0","0">>)
Row10A == StressRow(<<"1","0","A">>, <<" "," "," ","7","0","0","0">>,
                    <<" "," "," "," ","1","5","0","0","0">>)

\* " NODE DATA" with the load case name in columns 15-23
NodeDataLine(name) ==
    <<" ">> \o data_echo_keyword \o Blanks(5) \o name \o Blanks(9 - Len(name))
       \o <<"\n">>

ElementDataLine == <<" ">> \o element_data_keyword \o <<"\n">>

\* a coordinate row: the node id from column 0, X in columns 33-38, Y in
\* columns 44-49, Z in columns 55-60
CoordRow(id, x, y, z) ==
    id \o Blanks(8 - Len(id)) \o Blanks(25) \o x \o Blanks(5) \o y
       \o Blanks(5) \o z \o <<"\n">>

CoordX == <<" "," ","1",".","5","0">>
CoordY == <<" ","-","2",".","0","0">>
CoordZ == <<" "," ","0",".","0","0">>

Coord10 == CoordRow(<<"1","0">>, CoordX, CoordY, CoordZ)
Coord20 == CoordRow(<<"2","0">>, CoordY, CoordX, CoordZ)
Coord20M == CoordRow(<<"2","0"," ","M">>, CoordY, CoordZ, CoordX)
Coord12345M == CoordRow(<<"1","2","3","4","5"," ","M">>, CoordZ, CoordY, CoordX)

\* the lines every report of this family starts with: a load case
\* declaration, the stress-analysis marker, the connectivity header, the
\* three lines the scan skips after it, and the first connectivity row
ReportHead ==
    <<Declaration(NameWTDW), StressMarkerLine, HeaderLine,
      TextLine, TextLine, TextLine, Row10>>

\* the row that closes the single edge; the first NODE DATA line follows it
PartnerRows == {Row20M, Row12345M, Row10A}

TailLines ==
    {NodeDataLine(NameWTDW), ElementDataLine,
     Coord10, Coord20, Coord20M, Coord12345M}

MaxTailLines == 3

ReconRead ==
    \E line \in {ReportHead[i] : i \in DOMAIN ReportHead} \cup PartnerRows \cup TailLines :
        LET n == Len(raw_data_list)
        IN  /\ n < Len(ReportHead) + 2 + MaxTailLines
            /\ n < Len(ReportHead) => line = ReportHead[n + 1]
            /\ n = Len(ReportHead) => line \in PartnerRows
            /\ n = Len(ReportHead) + 1 => line = NodeDataLine(NameWTDW)
            /\ n > Len(ReportHead) + 1 => line \in TailLines
            /\ ReadLine(line)

ReconNext ==
    \/ GetNodeConnectivitiesEnter
    \/ ReconRead
    \/ ParseRawDataEnd
    \/ GetNodeConnectivitiesScan
    \/ ParseNodeCoordinatesEnter
    \/ ParseNodeCoordinatesScan
    \/ ParseStresses

SpecRecon == InitOneThreshold /\ [][ReconNext]_vars

(***************************************************************************)
(* Input lines: the pipe stress summary                                    *)
(***************************************************************************)
SummaryHeaderLine == pipe_stress_summary_keyword \o <<"\n">>

ApprovedLine == pipe_stress_summary_end_keyword \o <<"\n">>

\* a summary row with the given text in the ratio columns 72-78
RatioLine(field) == Blanks(RatioColumn) \o field \o <<"\n">>

RatioFields ==
    {<<" "," "," "," ","0",".","2">>, <<" "," ","0",".","5","0","0">>, <<" ","0",".","9","9","9","6">>,
     <<" "," ","1",".","0","0","0">>, <<" "," ","1",".","1","*","*">>, <<" ","1",".","0","9","9","6">>}

SummaryLines ==
    {SummaryHeaderLine, ApprovedLine} \cup {RatioLine(f) : f \in RatioFields}

MaxSummaryLines == 5

\* a report with at most one summary header and one approval line
SummaryRead ==
    \E line \in SummaryLines :
        /\ Len(raw_data_list) < MaxSummaryLines
        /\ line = SummaryHeaderLine => ~Holds(raw_data_list, SummaryHeaderLine)
        /\ line = ApprovedLine => ~Holds(raw_data_list, ApprovedLine)
        /\ ReadLine(line)

SummaryNext ==
    \/ CallParseRawData
    \/ SummaryRead
    \/ ParseRawDataEnd
    \/ ParsePipeStressSummary

SpecSummary == InitOneThreshold /\ [][SummaryNext]_vars

(***************************************************************************)
(* Node-id reconciliation                                                  *)
(***************************************************************************)
\* the endpoints of the edge set
Endpoints == FromColumn(node_connectivity_array) \cup ToColumn(node_connectivity_array)

\* the raw node id of a coordinate row: its stripped leading id columns
RawId(line) == Strip(Slice(line, 0, 8))

\* the id a row is to be stored under: the raw id, suffixed when the raw id is
\* no endpoint and the suffixed id is one
ExpectedId(line) ==
    IF RawId(line) \notin Endpoints /\ (RawId(line) \o midpoint_suffix) \in Endpoints
    THEN RawId(line) \o midpoint_suffix
    ELSE RawId(line)

RECURSIVE ExpectedIds(_, _)
\* the expected ids of the coordinate rows of the blocks of the one load case
\* these reports declare, in file order
ExpectedIds(lines, inside) ==
    IF lines = <<>> THEN <<>>
    ELSE LET line == Head(lines)
             in1  == IF line = NodeDataLine(NameWTDW) THEN TRUE
                     ELSE IF line = ElementDataLine THEN FALSE
                     ELSE inside
         IN  (IF in1 /\ IsCoordinateRow(line) THEN <<ExpectedId(line)>> ELSE <<>>)
             \o ExpectedIds(Tail(lines), in1)

\* the coordinate table of a load case, empty when it has none
TableOf(name) ==
    IF name \in DOMAIN loadcase_geometry_dic THEN loadcase_geometry_dic[name] ELSE <<>>

StoredIds(name) == [i \in DOMAIN TableOf(name) |-> TableOf(name)[i][1]]

\* C3: every qualifying coordinate row is stored under its raw id suffixed
\* with " M" when the raw id is no endpoint of any edge and the suffixed id is
\* one, and under the raw id itself in every other case.
C3_StoredId ==
    co_pc = "done" => StoredIds(NameWTDW) = ExpectedIds(raw_data_list, FALSE)

\* a line carrying a given id in its id columns
IdLine(id) == id \o Blanks(8 - Len(id)) \o <<"\n">>

\* C4: the coordinate-id rule applied to an id it stored, and the stress-id
\* rule applied to an id it stored, with the same edges and the same registry,
\* return that id.
C4_Idempotent ==
    (co_pc = "done" /\ st_pc = "done") =>
        /\ \A name \in DOMAIN loadcase_geometry_dic :
               \A i \in DOMAIN StoredIds(name) :
                   NodeIdToStore(IdLine(StoredIds(name)[i]), node_connectivity_array)
                       = StoredIds(name)[i]
        /\ \A i \in DOMAIN sustained_stresses :
               StressNodeId(IdLine(sustained_stresses[i][1]), all_coordinate_id_list)
                   = sustained_stresses[i][1]

\* C10: within a load case's coordinate table no node id occurs in two records.
C10_UniqueIds ==
    co_pc = "done" =>
        \A name \in DOMAIN loadcase_geometry_dic :
            \A i, j \in DOMAIN StoredIds(name) :
                i # j => StoredIds(name)[i] # StoredIds(name)[j]

(***************************************************************************)
(* The stress-ratio summary                                                *)
(***************************************************************************)
\* d quotes the ratio v (in ten-thousandths) to three decimals: digits, a
\* point and three digits, denoting the thousandth nearest to v
QuotesToThreeDecimals(d, v) ==
    /\ Find(d, <<".">>) = Len(d) - 4
    /\ ParseFloat(d).ok
    /\ ParseFloat(d).val - 5 <= v
    /\ v <= ParseFloat(d).val + 5

\* C5: a non-empty list of stress ratios is classified as meeting the
\* allowables exactly when every ratio is below 1.0 and as exceeded exactly
\* when some ratio is at least 1.0; the maximum then reported is the largest
\* ratio to three decimals.
C5_Classification ==
    (sm_pc = "done" /\ stress_ratio_list # <<>>) =>
        /\ stress_summary_text.kind = "meeting"
               <=> \A i \in DOMAIN stress_ratio_list : stress_ratio_list[i] < Unit
        /\ stress_summary_text.kind = "exceeded"
               <=> \E i \in DOMAIN stress_ratio_list : stress_ratio_list[i] >= Unit
        /\ stress_summary_text.kind = "exceeded" =>
               \E i \in DOMAIN stress_ratio_list :
                   /\ \A j \in DOMAIN stress_ratio_list :
                          stress_ratio_list[j] <= stress_ratio_list[i]
                   /\ QuotesToThreeDecimals(stress_summary_text.max,
                                            stress_ratio_list[i])

\* the ratios 0.2, 1.1 and 0.5 were read and 1.100 is reported as exceeded
C5_Witness ==
    /\ sm_pc = "done"
    /\ stress_ratio_list = <<2000, 11000, 5000>>
    /\ stress_summary_text = [kind |-> "exceeded", max |-> <<"1",".","1","0","0">>]

(***************************************************************************)
(* The plotting sequence of the script: connectivity, coordinates,         *)
(* stresses, stress plot                                                   *)
(***************************************************************************)
\* the line after the first connectivity row: a second row, or plain text
\* that leaves the report without any edge
MeshPartners == PartnerRows \cup {TextLine}

MaxMeshLines == 3

MeshRead ==
    \E line \in {ReportHead[i] : i \in DOMAIN ReportHead} \cup MeshPartners \cup TailLines :
        LET n == Len(raw_data_list)
        IN  /\ n < Len(ReportHead) + 2 + MaxMeshLines
            /\ n < Len(ReportHead) => line = ReportHead[n + 1]
            /\ n = Len(ReportHead) => line \in MeshPartners
            /\ n = Len(ReportHead) + 1 => line = NodeDataLine(NameWTDW)
            /\ n > Len(ReportHead) + 1 => line \in TailLines
            /\ ReadLine(line)

\* hcu.parse_node_coordinates() follows hcu.get_node_connectivities()
MeshCoordinates ==
    /\ cn_pc = "done"
    /\ ParseNodeCoordinatesEnter

\* hcu.parse_stresses() follows hcu.parse_node_coordinates()
MeshStresses ==
    /\ co_pc = "done"
    /\ ParseStresses

\* a call of axes_rotation on the parsed tables
MeshRotation ==
    /\ co_pc = "done"
    /\ \E loadcase \in {NameWTDW, NameTHRM}, plant_name \in PlantNames :
           AxesRotation(loadcase, plant_name)

\* hcu.get_stress_plot("WTDW") follows hcu.parse_stresses()
MeshPlot ==
    /\ st_pc = "done"
    /\ GetStressPlot(NameWTDW)

MeshNext ==
    \/ GetNodeConnectivitiesEnter
    \/ MeshRead
    \/ ParseRawDataEnd
    \/ GetNodeConnectivitiesScan
    \/ MeshCoordinates
    \/ ParseNodeCoordinatesScan
    \/ MeshStresses
    \/ MeshRotation
    \/ MeshPlot

SpecMesh == InitOneThreshold /\ [][MeshNext]_vars

\* the number of records of a table that carry the id
Matches(table, id) == Cardinality(RowsWithId(table, id))

\* C11: once connectivity, coordinates and stresses are parsed, every endpoint
\* of every edge is the node id of exactly one record of each load case's
\* coordinate table and of exactly one record of the stress table.
C11_Resolves ==
    (cn_pc = "done" /\ co_pc = "done" /\ st_pc = "done") =>
        \A i \in DOMAIN node_connectivity_array : \A e \in 1..2 :
            /\ \A name \in DOMAIN loadcase_geometry_dic :
                   Matches(loadcase_geometry_dic[name], node_connectivity_array[i][e]) = 1
            /\ Matches(sustained_stresses, node_connectivity_array[i][e]) = 1

(***************************************************************************)
(* Section boundaries                                                      *)
(***************************************************************************)
SectionLines == {StressMarkerLine, SummaryHeaderLine, ApprovedLine, TextLine}

MaxSectionLines == 4

SectionRead ==
    \E line \in SectionLines :
        /\ Len(raw_data_list) < MaxSectionLines
        /\ ReadLine(line)

SectionNext ==
    \/ CallParseRawData
    \/ SectionRead
    \/ ParseRawDataEnd

SpecSection == InitOneThreshold /\ [][SectionNext]_vars

\* the 0-based numbers of the lines read that contain the keyword
LinesWith(keyword) ==
    {i - 1 : i \in {j \in DOMAIN raw_data_list : Contains(raw_data_list[j], keyword)}}

\* C12: after parse_raw_data each recorded section start is the number of the
\* first line matching its start marker, the recorded summary end is the first
\* line at or after that start matching the terminator, and so end >= start
\* whenever both summary boundaries are set.
C12_FirstMatch ==
    rd_pc = "done" =>
        /\ attr["stress_analysis_line_number"] = "set" =>
               stress_analysis_line_number = MinOf(LinesWith(stress_analysis_keyword))
        /\ attr["pipe_stress_summary_start_line_number"] = "set" =>
               pipe_stress_summary_start_line_number
                   = MinOf(LinesWith(pipe_stress_summary_keyword))
        /\ attr["pipe_stress_summary_end_line_number"] = "set" =>
               /\ pipe_stress_summary_end_line_number
                      = MinOf({n \in LinesWith(pipe_stress_summary_end_keyword) :
                                  n >= pipe_stress_summary_start_line_number})
               /\ pipe_stress_summary_end_line_number
                      >= pipe_stress_summary_start_line_number

(***************************************************************************)
(* Boundaries that were never found                                        *)
(***************************************************************************)
\* a stage returns or raises in this step, on a file already read
Finishes(pc_before, pc_after) ==
    rd_pc = "done" /\ pc_before \in {"idle", "called"} /\ pc_after \in {"done", "raised"}

\* C13: on a file without the stress-analysis marker get_node_connectivities
\* and parse_stresses, and on a file without the summary markers
\* parse_pipe_stress_summary, finish with an empty result and do not raise.
C13_UnsetBoundaryChecked ==
    [][/\ (LinesWith(stress_analysis_keyword) = {} /\ Finishes(cn_pc, cn_pc')) =>
              (cn_pc' = "done" /\ node_connectivity_array' = <<>>)
       /\ (LinesWith(stress_analysis_keyword) = {} /\ Finishes(st_pc, st_pc')) =>
              (st_pc' = "done" /\ sustained_stresses' = <<>>)
       /\ (LinesWith(pipe_stress_summary_keyword) = {} /\ Finishes(sm_pc, sm_pc')) =>
              (sm_pc' = "done" /\ stress_ratio_list' = <<>>)]_vars

(***************************************************************************)
(* The plant convention "hc"                                               *)
(***************************************************************************)
\* table b holds the rows of table a in order, with the same node ids and
\* each raw triple (x, y, z) turned into (x, -z, y)
Remapped(a, b) ==
    /\ Len(b) = Len(a)
    /\ \A i \in DOMAIN a :
           /\ b[i][1] = a[i][1]
           /\ b[i][2] = CoordinateValue(a[i][2])
           /\ b[i][3] = 0 - CoordinateValue(a[i][4])
           /\ b[i][4] = CoordinateValue(a[i][3])

\* C14: a call of axes_rotation with convention "hc" that returns gives the
\* rows of the load case's table in the same order with the same node ids and
\* (x, y, z) remapped to (x, -z, y), and leaves the stored tables unchanged.
C14_PureRemap ==
    [][(ar_pc = "idle" /\ ar_pc' = "done") =>
           /\ loadcase_geometry_dic' = loadcase_geometry_dic
           /\ \E name \in DOMAIN loadcase_geometry_dic :
                  Remapped(loadcase_geometry_dic[name], rotated')]_vars

\* axes_rotation returned a table whose row for "20 M" has a sign-flipped Z
C14_Witness ==
    /\ ar_pc = "done"
    /\ \E i \in DOMAIN rotated : rotated[i] = <<<<"2","0"," ","M">>, -20000, -15000, 0>>

(***************************************************************************)
(* Unresolved endpoints in the stress plot                                 *)
(***************************************************************************)
\* both endpoints of the edge have a coordinate record and a stress record
Resolved(segment) ==
    \A e \in 1..2 :
        /\ NameWTDW \in DOMAIN loadcase_geometry_dic
        /\ RowsWithId(loadcase_geometry_dic[NameWTDW], segment[e]) # {}
        /\ RowsWithId(sustained_stresses, segment[e]) # {}

\* C16: get_stress_plot skips exactly the edges with an endpoint that has no
\* matching coordinate record or no matching stress record and processes
\* every other edge; it never aborts on an unresolved endpoint.
C16_SkipsOnlyUnresolved ==
    [][(gp_pc = "idle" /\ gp_pc' # "idle" /\ NameWTDW \in DOMAIN loadcase_geometry_dic
        /\ \E i \in DOMAIN node_connectivity_array : ~Resolved(node_connectivity_array[i])) =>
           /\ gp_pc' = "done"
           /\ plotted' = SelectSeq(node_connectivity_array, Resolved)]_vars

(***************************************************************************)
(* A report without edges                                                  *)
(***************************************************************************)
\* a qualifying coordinate row was read inside a NODE DATA block
HasCoordinateRows == ExpectedIds(raw_data_list, FALSE) # <<>>

\* C17: when connectivity extraction yields no edge, parse_node_coordinates on
\* a file with qualifying coordinate rows completes and stores each record
\* under its raw id.
C17_NoEdgesCompletes ==
    (cn_pc = "done" /\ node_connectivity_array = <<>> /\ HasCoordinateRows
     /\ co_pc \in {"done", "raised"}) =>
        /\ co_pc = "done"
        /\ StoredIds(NameWTDW) = ExpectedIds(raw_data_list, FALSE)

(***************************************************************************)
(* Input lines: THOR comment lines ahead of a small report                 *)
(***************************************************************************)
\* "THOR NODE" in columns 14-22 followed by the braced parameter block
ThorLine(params) ==
    Blanks(14) \o THOR_parameter_list[1] \o <<" ","{">> \o params \o <<"}","\n">>

ThorGood == ThorLine(<<"M","E","1","0","1"," ","N","O","D","E"," ","N","U","M","B","E","R","=","1","0",",","T","H","O","R"," ","N","O","D","E"," ","N","U","M","B","E","R","=","5">>)

ThorNoNodeNumber == ThorLine(<<"T","H","O","R"," ","N","O","D","E"," ","N","U","M","B","E","R","=","5">>)

ThorMalformed == ThorLine(<<"M","E","1","0","1"," ","N","O","D","E"," ","N","U","M","B","E","R","=","2","0"," ","M",",","E","L","E","V","A","T","I","O","N">>)

ThorOriginPartial ==
    ThorLine(<<"M","E","1","0","1"," ","N","O","D","E"," ","N","U","M","B","E","R","=","2","0"," ","M",",","O","R","I","G","I","N","=","Y",",","E","A","S","T","_","W","E","S","T","_","O","R","I","G","I","N","=","1",".","5">>)

ThorLines == {ThorGood, ThorNoNodeNumber, ThorMalformed, ThorOriginPartial, TextLine}

\* the report that follows the THOR lines: one edge ("10", "20 M") and a
\* NODE DATA block with a coordinate row for each endpoint
ReportBody == ReportHead \o <<Row20M, NodeDataLine(NameWTDW), Coord10, Coord20M>>

MaxThorLines == 3

ThorRead ==
    \E line \in ThorLines \cup {ReportBody[i] : i \in DOMAIN ReportBody} :
        LET n == Len(raw_data_list)
        IN  /\ n < MaxThorLines + Len(ReportBody)
            /\ n < MaxThorLines => line \in ThorLines
            /\ n >= MaxThorLines => line = ReportBody[n - MaxThorLines + 1]
            /\ ReadLine(line)

\* hcu.get_THOR_plot("WTDW"), at any point of the sequence
ThorPlot == GetTHORPlot(NameWTDW)

ThorNext ==
    \/ GetNodeConnectivitiesEnter
    \/ ThorRead
    \/ ParseRawDataEnd
    \/ GetNodeConnectivitiesScan
    \/ MeshCoordinates
    \/ ParseNodeCoordinatesScan
    \/ ThorPlot

SpecThor == InitOneThreshold /\ [][ThorNext]_vars

\* C15: once THOR_input_error is true it stays true, no later line adds an
\* entry to THOR_node_dic, and a call of get_THOR_plot made while it is set
\* returns without output.
C15_StickyFlag ==
    [][THOR_input_error =>
           /\ THOR_input_error'
           /\ THOR_node_dic' = THOR_node_dic
           /\ (th_pc = "idle" /\ th_pc' # "idle") => th_pc' = "suppressed"]_vars

\* a malformed THOR line was followed by a well-formed one, which left no
\* entry, and get_THOR_plot returned without output
C15_Witness ==
    /\ Len(raw_data_list) >= 2
    /\ raw_data_list[1] = ThorMalformed
    /\ raw_data_list[2] = ThorGood
    /\ THOR_input_error
    /\ THOR_node_dic = EmptyDic
    /\ th_pc = "suppressed"

(***************************************************************************)
(* Geometry section: the inside/outside machine and single-endpoint lines   *)
(***************************************************************************)
\* the line a ReadLine step has just consumed
LineRead == raw_data_list'[Len(raw_data_list')]

ReadsALine == Len(raw_data_list') = Len(raw_data_list) + 1

StartLine(line) == Contains(line, input_card_start_keyword)

EndLine(line) ==
    \/ Contains(line, input_card_end_keyword)
    \/ Slice(line, 10, 13) \in {<<"T","E","A">>, <<"A","C","E">>, <<"E","N","D">>}

\* the line is handled as a card: read while inside and not an end line
CardRead == ReadsALine /\ parsing_raw_geometry /\ ~EndLine(LineRead)

\* the one non-blank endpoint of a line that has exactly one
OnlyEndpoint(line) ==
    IF EndpointsOf(line)[1] # <<>> THEN EndpointsOf(line)[1] ELSE EndpointsOf(line)[2]

SingleEndpointCard ==
    /\ CardRead
    /\ HasEndpoints(LineRead)
    /\ NonBlankCount(EndpointsOf(LineRead)) = 1

KeywordFree(line) ==
    \A i \in 1..Len(nozzle_analysis_keyword_list) :
        ~Contains(line, nozzle_analysis_keyword_list[i])

\* C18: the parser is inside exactly for the lines after a start line and up
\* to the next end line, either end test alone ends the section, and the
\* entry list is left as it was by a start line, an end line and any line read
\* while outside.
C18_TwoState ==
    [][ReadsALine =>
           /\ parsing_raw_geometry' =
                  (StartLine(LineRead) \/ (parsing_raw_geometry /\ ~EndLine(LineRead)))
           /\ (StartLine(LineRead) \/ EndLine(LineRead) \/ ~parsing_raw_geometry)
                  => raw_segment_parameter_list' = raw_segment_parameter_list]_vars

\* C19: a card with exactly one endpoint that is not the first endpoint line
\* of the parse appends two entries, the id of the entry that was last before
\* it and the endpoint on the card, both without parameters when the card
\* names none, and leaves the parser in paired mode.
C19_LaterSingle ==
    [][(SingleEndpointCard /\ first_single_node_in_this_line # "None") =>
           LET n == Len(raw_segment_parameter_list)
           IN  /\ n >= 1
               /\ Len(raw_segment_parameter_list') = n + 2
               /\ SubSeq(raw_segment_parameter_list', 1, n) = raw_segment_parameter_list
               /\ raw_segment_parameter_list'[n + 1].id = raw_segment_parameter_list[n].id
               /\ raw_segment_parameter_list'[n + 2].id = OnlyEndpoint(LineRead)
               /\ KeywordFree(LineRead) =>
                      /\ raw_segment_parameter_list'[n + 1].params = EmptyDic
                      /\ raw_segment_parameter_list'[n + 2].params = EmptyDic
               /\ first_single_node_in_this_line' = "False"]_vars

\* C20: when the first endpoint line of the section has exactly one endpoint,
\* in either field, one entry is appended, its id is that endpoint, it has no
\* parameters when the card names none, and the parser is in single-start
\* mode.
C20_FirstSingle ==
    [][(SingleEndpointCard /\ first_single_node_in_this_line = "None") =>
           /\ Len(raw_segment_parameter_list') = Len(raw_segment_parameter_list) + 1
           /\ raw_segment_parameter_list'[Len(raw_segment_parameter_list')].id =
                  OnlyEndpoint(LineRead)
           /\ KeywordFree(LineRead) =>
                  raw_segment_parameter_list'[Len(raw_segment_parameter_list')].params
                      = EmptyDic
           /\ first_single_node_in_this_line' = "True"]_vars

(***************************************************************************)
(* Geometry section: where a card's OD= and THI= values are written         *)
(***************************************************************************)
\* the value an entry holds for a key, as a sequence of at most one element
ParamOf(entry, k) == IF k \in DOMAIN entry.params THEN <<entry.params[k]>> ELSE <<>>

\* the same for position i of the list as it was before the step, an entry
\* the step has just emitted starting with an empty map
ParamBefore(i, k) ==
    IF i <= Len(raw_segment_parameter_list)
    THEN ParamOf(raw_segment_parameter_list[i], k)
    ELSE <<>>

\* the entries a keyword of the card just read is attached to
KeywordTargets ==
    LET n == Len(raw_segment_parameter_list')
    IN  IF first_single_node_in_this_line' = "True" THEN {n}
        ELSE IF first_single_node_in_this_line' = "False" THEN {n - 1, n}
        ELSE {}

\* C21: a non-comment card with OD= or THI= writes the value to the last
\* entry in single-start mode and to the last two in paired mode, with or
\* without endpoints on the card; every other map keeps what it held.
C21_KeywordTargets ==
    [][(CardRead /\ ~Contains(LineRead, comment_key) /\ ~KeywordFree(LineRead)) =>
           \A i \in 1..Len(raw_segment_parameter_list') :
               \A j \in 1..Len(nozzle_analysis_keyword_list) :
                   LET keyword == nozzle_analysis_keyword_list[j]
                       k       == Slice(keyword, 0, -1)
                   IN  IF i \in KeywordTargets /\ Contains(LineRead, keyword)
                       THEN ParamOf(raw_segment_parameter_list'[i], k) =
                                <<KeywordValue(LineRead, keyword)>>
                       ELSE ParamOf(raw_segment_parameter_list'[i], k) =
                                ParamBefore(i, k)]_vars

\* a card with OD= and no endpoints was read in paired mode after three
\* entries: the last two hold its value and the first holds none
C21_Witness ==
    /\ rd_pc = "reading"
    /\ Len(raw_data_list) = 4
    /\ raw_data_list[4] = Card(Blanks(3), Blanks(3), Blanks(3), TailOD)
    /\ first_single_node_in_this_line = "False"
    /\ Len(raw_segment_parameter_list) = 3
    /\ ParamOf(raw_segment_parameter_list[1], <<"O","D">>) = <<>>
    /\ ParamOf(raw_segment_parameter_list[2], <<"O","D">>) = << <<"4",".","5">> >>
    /\ ParamOf(raw_segment_parameter_list[3], <<"O","D">>) = << <<"4",".","5">> >>

\* C22: after a card read in paired mode, a key that the most recent entry
\* is still missing, the card giving no value for it, takes the value the
\* third-most-recent entry holds for it, in both of the two most recent
\* entries.
C22_Inherits ==
    [][(CardRead /\ ~Contains(LineRead, comment_key)
            /\ first_single_node_in_this_line' = "False") =>
           LET n == Len(raw_segment_parameter_list')
           IN  \A j \in 1..Len(nozzle_analysis_keyword_list) :
                   LET keyword == nozzle_analysis_keyword_list[j]
                       k       == Slice(keyword, 0, -1)
                   IN  (/\ ~Contains(LineRead, keyword)
                        /\ ParamBefore(n, k) = <<>>
                        /\ n >= 3
                        /\ ParamOf(raw_segment_parameter_list'[n - 2], k) # <<>>) =>
                           /\ ParamOf(raw_segment_parameter_list'[n], k) =
                                  ParamOf(raw_segment_parameter_list'[n - 2], k)
                           /\ ParamOf(raw_segment_parameter_list'[n - 1], k) =
                                  ParamOf(raw_segment_parameter_list'[n - 2], k)]_vars

(***************************************************************************)
(* Connectivity: what follows the end-of-section banner                     *)
(***************************************************************************)
\* a stress section with one edge, closed by the banner
SectionWithBanner ==
    <<StressMarkerLine, HeaderLine, TextLine, TextLine, TextLine,
      Row10, Row20M, BannerLine>>

AfterBannerLines == {HeaderLine, TextLine, Row10, Row20M}

MaxAfterBannerLines == 6

BannerRead ==
    \E line \in {SectionWithBanner[i] : i \in DOMAIN SectionWithBanner}
                    \cup AfterBannerLines :
        LET n == Len(raw_data_list)
        IN  /\ n < Len(SectionWithBanner) + MaxAfterBannerLines
            /\ n < Len(SectionWithBanner) => line = SectionWithBanner[n + 1]
            /\ n >= Len(SectionWithBanner) => line \in AfterBannerLines
            /\ ReadLine(line)

BannerNext ==
    \/ GetNodeConnectivitiesEnter
    \/ BannerRead
    \/ ParseRawDataEnd
    \/ GetNodeConnectivitiesScan

SpecBanner == InitOneThreshold /\ [][BannerNext]_vars

\* C23: the lines after the banner add no edge: the array holds the one edge
\* of the rows that precede it.
C23_StopsAtBanner ==
    (cn_pc = "done" /\ Len(raw_data_list) >= Len(SectionWithBanner)) =>
        node_connectivity_array = << << <<"1","0">>, <<"2","0"," ","M">> >> >>

(***************************************************************************)
(* The registry of known coordinate ids                                     *)
(***************************************************************************)
RECURSIVE SubstitutedRows(_, _)
\* for each coordinate row of the blocks of the one load case these reports
\* declare, in file order: whether the " M" substitution applies to it
SubstitutedRows(lines, inside) ==
    IF lines = <<>> THEN <<>>
    ELSE LET line == Head(lines)
             in1  == IF line = NodeDataLine(NameWTDW) THEN TRUE
                     ELSE IF line = ElementDataLine THEN FALSE
                     ELSE inside
         IN  (IF in1 /\ IsCoordinateRow(line)
              THEN <<ExpectedId(line) # RawId(line)>> ELSE <<>>)
             \o SubstitutedRows(Tail(lines), in1)

RECURSIVE KeepUnsubstituted(_, _)
\* the ids of the records that were not stored through the substitution
KeepUnsubstituted(ids, substituted) ==
    IF ids = <<>> \/ substituted = <<>> THEN <<>>
    ELSE (IF Head(substituted) THEN <<>> ELSE <<Head(ids)>>)
         \o KeepUnsubstituted(Tail(ids), Tail(substituted))

\* C24: the registry holds the stored id of every record that was not stored
\* through the " M" substitution, and nothing else.
C24_Registry ==
    co_pc = "done" =>
        /\ Len(SubstitutedRows(raw_data_list, FALSE)) = Len(StoredIds(NameWTDW))
        /\ all_coordinate_id_list =
               KeepUnsubstituted(StoredIds(NameWTDW),
                                 SubstitutedRows(raw_data_list, FALSE))

(***************************************************************************)
(* Comment parameters: what a later line does to a stored value             *)
(***************************************************************************)
IsPrefixOf(s, t) == Len(s) <= Len(t) /\ SubSeq(t, 1, Len(s)) = s

\* C26: no line replaces a value the map holds: a single-value key keeps the
\* value stored first, a repeatable key only gains list elements and a
\* multi-line key only gains text at its end.
C26_AppendOnly ==
    [][ReadsALine =>
           \A key \in DOMAIN coversheet_parameter_dic :
               /\ key \in DOMAIN coversheet_parameter_dic'
               /\ IF key \in coversheet_parameter_list
                  THEN coversheet_parameter_dic'[key] = coversheet_parameter_dic[key]
                  ELSE IsPrefixOf(coversheet_parameter_dic[key],
                                  coversheet_parameter_dic'[key])]_vars

(***************************************************************************)
(* Geometry section: the mode flag against the entry list                   *)
(***************************************************************************)
\* C27: while parse_raw_data runs the mode is unset exactly when the entry
\* list is empty, single-start exactly when it holds one entry and paired
\* only when it holds at least two, and paired mode is never left, so the
\* [-1] and [-2] accesses are in range.
C27_ModeHistory ==
    /\ [](rd_pc # "idle" =>
            /\ (first_single_node_in_this_line = "None")
                   <=> (Len(raw_segment_parameter_list) = 0)
            /\ (first_single_node_in_this_line = "True")
                   <=> (Len(raw_segment_parameter_list) = 1)
            /\ (first_single_node_in_this_line = "False")
                   => (Len(raw_segment_parameter_list) >= 2))
    /\ [][first_single_node_in_this_line = "False"
              => first_single_node_in_this_line' = "False"]_vars

\* a section with a two-endpoint card was closed and a second section
\* entered: the mode is still paired and the two entries are still held
C27_Witness ==
    /\ Len(raw_data_list) = 4
    /\ raw_data_list[1] = input_card_start_keyword \o <<"\n">>
    /\ raw_data_list[2] = Card(Blanks(3), NodeA, NodeB, TailBoth)
    /\ raw_data_list[3] = Card(<<"E","N","D">>, Blanks(3), Blanks(3), <<>>)
    /\ raw_data_list[4] = input_card_start_keyword \o <<"\n">>
    /\ parsing_raw_geometry
    /\ first_single_node_in_this_line = "False"
    /\ Len(raw_segment_parameter_list) = 2

(***************************************************************************)
(* Geometry section: a card that repeats the endpoints of the previous one  *)
(***************************************************************************)
RECURSIVE LastEndpointFields(_, _, _)
\* the endpoint columns of the last endpoint-bearing card handled inside the
\* section, as a sequence of at most one element
LastEndpointFields(lines, inside, last) ==
    IF lines = <<>> THEN last
    ELSE LET line  == Head(lines)
             card  == inside /\ ~EndLine(line)
             last1 == IF card /\ HasEndpoints(line)
                      THEN <<Slice(line, 13, 19)>> ELSE last
             in1   == IF StartLine(line) THEN TRUE
                      ELSE IF EndLine(line) THEN FALSE
                      ELSE inside
         IN  LastEndpointFields(Tail(lines), in1, last1)

\* the card just read carries the endpoint fields of the previous endpoint card
RepeatsEndpoints ==
    /\ CardRead
    /\ HasEndpoints(LineRead)
    /\ LastEndpointFields(raw_data_list, FALSE, <<>>) = <<Slice(LineRead, 13, 19)>>

\* C28: a card that repeats the endpoint fields of the previous endpoint card
\* emits no entry and leaves the mode as it was; its keywords are written to
\* the entries already held.
C28_RepeatedCard ==
    [][RepeatsEndpoints =>
           /\ first_single_node_in_this_line' = first_single_node_in_this_line
           /\ Len(raw_segment_parameter_list') = Len(raw_segment_parameter_list)
           /\ \A i \in 1..Len(raw_segment_parameter_list) :
                  /\ raw_segment_parameter_list'[i].id = raw_segment_parameter_list[i].id
                  /\ \A j \in 1..Len(nozzle_analysis_keyword_list) :
                         LET keyword == nozzle_analysis_keyword_list[j]
                             k       == Slice(keyword, 0, -1)
                         IN  IF i \in KeywordTargets /\ Contains(LineRead, keyword)
                             THEN ParamOf(raw_segment_parameter_list'[i], k) =
                                      <<KeywordValue(LineRead, keyword)>>
                             ELSE ParamOf(raw_segment_parameter_list'[i], k) =
                                      ParamOf(raw_segment_parameter_list[i], k)]_vars

\* a two-endpoint card with OD= and THI= was read twice in a row after a
\* single-start card: three entries, not five
C28_Witness ==
    /\ Len(raw_data_list) = 4
    /\ raw_data_list[2] = Card(Blanks(3), Blanks(3), NodeA, <<>>)
    /\ raw_data_list[3] = Card(Blanks(3), NodeA, NodeB, TailBoth)
    /\ raw_data_list[4] = raw_data_list[3]
    /\ first_single_node_in_this_line = "False"
    /\ Len(raw_segment_parameter_list) = 3
    /\ ParamOf(raw_segment_parameter_list[3], <<"T","H","I">>) = << <<".","3">> >>

(***************************************************************************)
(* Geometry section: a keyword that ends in the characters of OD=           *)
(***************************************************************************)
TailCode == <<" ","C","O","D","E","=","B","3","1",",">>
TailMod == <<" ","M","O","D","=","2",",">>

CodeLines ==
    { input_card_start_keyword \o <<"\n">>,
      Card(Blanks(3), Blanks(3), NodeA, <<>>),
      Card(Blanks(3), NodeA, NodeB, TailBoth),
      Card(Blanks(3), NodeB, NodeA, TailCode),
      Card(Blanks(3), Blanks(3), Blanks(3), TailMod),
      Card(Blanks(3), Blanks(3), Blanks(3), TailOD) }

MaxCodeLines == 4

CodeRead ==
    \E line \in CodeLines :
        /\ Len(raw_data_list) < MaxCodeLines
        /\ ReadLine(line)

CodeNext ==
    \/ CallParseRawData
    \/ CodeRead
    \/ ParseRawDataEnd

SpecCode == InitOneThreshold /\ [][CodeNext]_vars

\* the line has an OD= field of its own: the characters OD= at the start of
\* the line or after a blank or a comma
HasOwnOD(line) ==
    \E i \in 1..Len(line) :
        /\ Slice(line, i - 1, i + 2) = <<"O","D","=">>
        /\ (i = 1 \/ line[i - 1] \in {" ", ","})

\* C29: a line without an OD= field of its own leaves the OD value of every
\* entry as it was, and an entry it emits has none.
C29_OwnFieldOnly ==
    [][(ReadsALine /\ ~HasOwnOD(LineRead)) =>
           \A i \in 1..Len(raw_segment_parameter_list') :
               ParamOf(raw_segment_parameter_list'[i], <<"O","D">>) =
                   ParamBefore(i, <<"O","D">>)]_vars

(***************************************************************************)
(* The four stages called in any order on a new object                      *)
(***************************************************************************)
StagesNext ==
    \/ ParseLoadCasesEnter
    \/ ParseLoadCasesScan
    \/ GetNodeConnectivitiesEnter
    \/ GetNodeConnectivitiesScan
    \/ ParseNodeCoordinatesEnter
    \/ ParseNodeCoordinatesScan
    \/ ParseStresses
    \/ ReconRead
    \/ ParseRawDataEnd

SpecStages == InitOneThreshold /\ [][StagesNext]_vars

\* C30: no stage fails for want of an output that was not produced yet (the
\* raw lines, the load-case list, the edges, the registry of coordinate ids),
\* and the file is loaded at most once.
C30_OnDemand ==
    [][/\ (lc_pc = "called" /\ lc_pc' # "called") => attr["raw_data_list"] = "set"
       /\ (cn_pc = "called" /\ cn_pc' # "called") => attr["raw_data_list"] = "set"
       /\ (co_pc = "called" /\ co_pc' = "raised") =>
              attr["node_connectivity_array"] = "set"
       /\ (st_pc = "idle" /\ st_pc' = "raised") =>
              /\ attr["raw_data_list"] = "set"
              /\ attr["all_coordinate_id_list"] = "set"
       /\ rd_pc # "idle" => rd_pc' \notin {"idle"}
       /\ rd_pc = "done" => rd_pc' = "done"]_vars

====
